---- MODULE Spec2Model ----
(***************************************************************************)
(* Transplant: a master (transplant_master.py, class Matlab) drives a      *)
(* remote engine over one ZeroMQ REQ/REP connection.  The model has the    *)
(* master's main thread (a call stack of operations, each walking through  *)
(* send_message and _wait_socket), the REQ socket and the two directions   *)
(* of the channel, the child process, the remote message loop and the      *)
(* remote handle table (object_cache / empty_cache_indexes).               *)
(***************************************************************************)
EXTENDS Integers, Sequences, FiniteSets, TLC

\* ---------------------------------------------------------------- bounds
MaxOps == 3          \* operations (user calls and finalizers) started in one run
MaxInterrupts == 1   \* KeyboardInterrupts delivered in one run
MaxProxies == 1      \* proxy objects decoded by the master in one run
MaxTableOps == 7     \* table requests served in one run of the remote alone
MaxObjs == 2         \* distinct remote objects offered to the table
MaxFuns == 1         \* function references decoded by the master in one run
MaxLen == 2          \* length of the lists offered to the value codec

\* ------------------------------------------------------ program constants
None == "None"       \* Python's None (returncode, empty frame slots)
Tombstone == 0       \* object_cache slot of a released handle (None in the cache)

RequestTypes == {"die", "set_global", "get_global", "del_proxy", "call"}
ResponseTypes == {"ack", "error", "value"}

VARIABLES
    stack,                \* main thread: call stack of running operations (top = last)
    last,                 \* the operation that completed most recently, with its outcome
    completed,            \* number of operations that have completed
    sockClosed,           \* self.socket.closed
    returncode,           \* self.process.returncode (None until a poll()/wait() reaps the child)
    procAlive,            \* the child process is running
    crashed,              \* the child died on its own (not through the 'die' request)
    reader,               \* the stdout reader thread: "running" or "done"
    receiving_reply,      \* the REQ socket's state: a request was sent, its reply not yet read
    toRemote,             \* requests in flight, master -> remote
    toMaster,             \* replies in flight, remote -> master
    rpc,                  \* remote message loop position
    rmsg,                 \* the request the remote is handling
    object_cache,         \* remote handle table (slot i+1 holds handle i)
    empty_cache_indexes,  \* remote free list (a deque of handles)
    hist,                 \* the last table operations (allocations and releases)
    tableOps,             \* number of table requests served by the remote run alone
    proxyState,           \* master proxy objects: "unborn", "live", "finalizing", "finalized"
    proxyHandle,          \* the handle each proxy wraps
    delSent,              \* del_proxy requests transmitted for each proxy
    sent,                 \* requests transmitted on the channel
    recvd,                \* replies read from the channel
    sigints,              \* SIGINTs forwarded to the child
    nOps,                 \* operations started
    nInts,                \* KeyboardInterrupts delivered
    resolved,             \* the remote's latest handle resolution and what it yielded
    funs,                 \* handles of the function references the master holds
    session,              \* the Matlab constructor: "constructing", "ready" or "failed"
    codec,                \* a value under _encode_values / _decode_values / error raising
    globals,              \* the remote's globals(): name -> value
    attrs,                \* the session object's attributes and its latest attribute access
    ledger                \* the table's client: which handle it was issued for which object

vars == <<stack, last, completed, sockClosed, returncode, procAlive, crashed,
          reader, receiving_reply, toRemote, toMaster, rpc, rmsg, object_cache,
          empty_cache_indexes, hist, tableOps, proxyState, proxyHandle, delSent,
          sent, recvd, sigints, nOps, nInts, resolved, funs, session, codec, globals, attrs, ledger>>

masterVars == <<stack, last, completed, sockClosed, returncode, receiving_reply,
                proxyState, proxyHandle, delSent, sent, recvd, sigints, nOps>>
remoteVars == <<rpc, rmsg, object_cache, empty_cache_indexes, hist>>

Proxies == 1..MaxProxies
Objs == 1..MaxObjs

\* ------------------------------------------------------------ handle table
\* encode_proxy / encode_function: reuse the head of the free list, else append.
EncodeProxy_Append(cache, free, data) ==
    [idx |-> Len(cache), cache |-> Append(cache, data), free |-> free]

SetMin(S) == CHOOSE x \in S : \A y \in S : x <= y
Range(sq) == {sq[i] : i \in 1..Len(sq)}
FirstIndexOf(sq, x) == SetMin({i \in 1..Len(sq) : sq[i] = x})
RemoveAt(sq, i) == SubSeq(sq, 1, i - 1) \o SubSeq(sq, i + 1, Len(sq))

EncodeProxy_Smallest(cache, free, data) ==
    IF Len(free) > 0
    THEN [idx |-> SetMin(Range(free)),
          cache |-> [cache EXCEPT ![SetMin(Range(free)) + 1] = data],
          free |-> RemoveAt(free, FirstIndexOf(free, SetMin(Range(free))))]
    ELSE [idx |-> Len(cache),
          cache |-> Append(cache, data),
          free |-> free]

EncodeProxy(cache, free, data) ==
    IF Len(free) > 0
    THEN [idx |-> Head(free),
          cache |-> [cache EXCEPT ![Head(free) + 1] = data],
          free |-> Tail(free)]
    ELSE [idx |-> Len(cache),
          cache |-> Append(cache, data),
          free |-> free]

\* del_proxy: object_cache[handle] = None raises IndexError when out of range,
\* and the handle is appended to the free list only after the store succeeded.
HandleInRange(cache, handle) == handle >= 0 /\ handle < Len(cache)

DelProxy_NoTombstone(cache, free, handle) ==
    [cache |-> cache, free |-> Append(free, handle)]

DelProxy(cache, free, handle) ==
    [cache |-> [cache EXCEPT ![handle + 1] = Tombstone],
     free |-> Append(free, handle)]

\* decode_proxy / decode_function: plain index lookup.
DecodeProxy_Last(cache, handle) == cache[Len(cache)]

DecodeProxy(cache, handle) == cache[handle + 1]

\* What the message loop does with a handle it is given.  how = "embedded": an
\* __object__ / __function__ reference inside the request, decoded by
\* decode_values before the try block (an IndexError there is not caught and
\* ends the process).  how = "set_proxy" / "get_proxy" / "call": the lookup
\* object_cache[handle] inside the try block, followed by setattr, getattr or
\* the call on what the lookup returned; the tombstone is None, which has no
\* settable attributes, is not callable, and has only the attributes every
\* object has.
AttrsOfNone == {"__class__"}
ResolveKinds == {<<"embedded", "-">>, <<"call", "-">>, <<"set_proxy", "x">>,
                 <<"get_proxy", "x">>, <<"get_proxy", "__class__">>}

Resolution(how, name, cache, handle) ==
    IF ~HandleInRange(cache, handle)
    THEN [how |-> how, name |-> name, handle |-> handle,
          outcome |-> IF how = "embedded" THEN "crash" ELSE "error", obj |-> -1]
    ELSE IF DecodeProxy(cache, handle) = Tombstone
    THEN [how |-> how, name |-> name, handle |-> handle,
          outcome |-> IF how = "embedded" \/ (how = "get_proxy" /\ name \in AttrsOfNone)
                      THEN "value" ELSE "error",
          obj |-> Tombstone]
    ELSE [how |-> how, name |-> name, handle |-> handle,
          outcome |-> "value", obj |-> DecodeProxy(cache, handle)]

Last3(s) == IF Len(s) > 3 THEN SubSeq(s, Len(s) - 2, Len(s)) ELSE s

AllocEvent(r, data, free) ==
    [op |-> "alloc", idx |-> r.idx, obj |-> data, nfree |-> Len(free)]
ReleaseEvent(handle, free) ==
    [op |-> "release", idx |-> handle, obj |-> Tombstone, nfree |-> Len(free)]

\* ------------------------------------------------------------ value codec
\* A value, Python-side or on the wire, is a record: k is its type, s a
\* string (text, dtype name, map key), n a number, items its children, raw a
\* vector of numbers (array elements, bytes, base64 digits), shape the
\* dimensions of an array.
MkV(k, s, n, items, raw, shape) ==
    [k |-> k, s |-> s, n |-> n, items |-> items, raw |-> raw, shape |-> shape]

NullV == MkV("null", "", 0, <<>>, <<>>, <<>>)
ErrorV(what) == MkV("error", what, 0, <<>>, <<>>, <<>>)
BoolV(b) == MkV("bool", "", IF b THEN 1 ELSE 0, <<>>, <<>>, <<>>)
NumV(n) == MkV("num", "", n, <<>>, <<>>, <<>>)
StrV(s) == MkV("str", s, 0, <<>>, <<>>, <<>>)
BytesV(bs) == MkV("bytes", "", 0, <<>>, bs, <<>>)
ListV(items) == MkV("list", "", 0, items, <<>>, <<>>)
PairV(key, v) == MkV("pair", key, 0, <<v>>, <<>>, <<>>)
MapV(pairs) == MkV("map", "", 0, pairs, <<>>, <<>>)
ArrayV(dtype, shape, elems) == MkV("array", dtype, 0, <<>>, elems, shape)
SparseV(shape, row, col, val) == MkV("sparse", "", 0, <<row, col, val>>, <<>>, shape)
ProxyV(handle) == MkV("proxy", "", 0, <<handle>>, <<>>, <<>>)    \* ProxyObject(self, handle)
FuncV(handle) == MkV("func", "", 0, <<handle>>, <<>>, <<>>)      \* MatlabFunction(self, handle)
\* On the remote: a Python function and any other object the remote cannot
\* reduce to a pure value; n names the object.
PyFuncV(obj) == MkV("pyfunc", "", obj, <<>>, <<>>, <<>>)
PyObjV(obj) == MkV("pyobj", "", obj, <<>>, <<>>, <<>>)

\* a shape tuple as it is serialised: a list of numbers
ShapeList(shape) == ListV([i \in 1..Len(shape) |-> NumV(shape[i])])

\* data.tostring() / data.tobytes(): the elements in order, each as itemsize
\* little-endian bytes (two's complement for the signed types).
ItemSize(dtype) == CASE dtype = "uint8" -> 1 [] dtype = "int16" -> 2 [] OTHER -> 4
Signed(dtype) == dtype # "uint8"

ElemBytes(dtype, x) ==
    [i \in 1..ItemSize(dtype) |->
        (CASE i = 1 -> x [] i = 2 -> x \div 256 [] i = 3 -> x \div 65536
           [] OTHER -> x \div 16777216) % 256]

RECURSIVE ToBytes(_, _)
ToBytes(dtype, elems) ==
    IF elems = <<>> THEN <<>>
    ELSE ElemBytes(dtype, Head(elems)) \o ToBytes(dtype, Tail(elems))

\* np.fromstring(bytes, dtype) / np.frombuffer(bytes, dtype)
ElemFromBytes(dtype, bs) ==
    LET w == ItemSize(dtype)
        top == IF Signed(dtype) /\ bs[w] >= 128 THEN bs[w] - 256 ELSE bs[w]
        b(i) == IF i = w THEN top ELSE bs[i]
    IN CASE w = 1 -> b(1)
         [] w = 2 -> b(1) + 256 * b(2)
         [] OTHER -> b(1) + 256 * b(2) + 65536 * b(3) + 16777216 * b(4)

RECURSIVE FromBytes(_, _)
FromBytes(dtype, bs) ==
    IF Len(bs) < ItemSize(dtype) THEN <<>>
    ELSE <<ElemFromBytes(dtype, SubSeq(bs, 1, ItemSize(dtype)))>>
         \o FromBytes(dtype, SubSeq(bs, ItemSize(dtype) + 1, Len(bs)))

\* base64.b64encode / base64.b64decode over digit values 0..63, Pad for '='.
Pad == 64

RECURSIVE B64Encode(_)
B64Encode(bs) ==
    IF Len(bs) = 0 THEN <<>>
    ELSE IF Len(bs) = 1
    THEN <<bs[1] \div 4, (bs[1] % 4) * 16, Pad, Pad>>
    ELSE IF Len(bs) = 2
    THEN <<bs[1] \div 4, (bs[1] % 4) * 16 + bs[2] \div 16, (bs[2] % 16) * 4, Pad>>
    ELSE <<bs[1] \div 4, (bs[1] % 4) * 16 + bs[2] \div 16,
           (bs[2] % 16) * 4 + bs[3] \div 64, bs[3] % 64>>
         \o B64Encode(SubSeq(bs, 4, Len(bs)))

RECURSIVE B64Decode(_)
B64Decode(ds) ==
    IF Len(ds) < 4 THEN <<>>
    ELSE (IF ds[3] = Pad
          THEN <<ds[1] * 4 + ds[2] \div 16>>
          ELSE IF ds[4] = Pad
          THEN <<ds[1] * 4 + ds[2] \div 16, (ds[2] % 16) * 16 + ds[3] \div 4>>
          ELSE <<ds[1] * 4 + ds[2] \div 16, (ds[2] % 16) * 16 + ds[3] \div 4,
                 (ds[3] % 4) * 64 + ds[4]>>)
         \o B64Decode(SubSeq(ds, 5, Len(ds)))

Base64Str(bs) == MkV("str", "", 0, <<>>, B64Encode(bs), <<>>)

\* _encode_matrix: ["__matrix__", dtype name, shape, payload]; the payload is
\* base64 text under json and the raw bytes under msgpack.
EncodeMatrix(fmt, a) ==
    ListV(<<StrV("__matrix__"), StrV(a.s), ShapeList(a.shape),
            IF fmt = "json" THEN Base64Str(ToBytes(a.s, a.raw))
                            ELSE BytesV(ToBytes(a.s, a.raw))>>)

RECURSIVE Product(_)
Product(sq) == IF sq = <<>> THEN 1 ELSE Head(sq) * Product(Tail(sq))

\* _decode_matrix: dtype, shape, data = data[1:]; decode the payload (base64
\* if it is a str), coerce the shape to ints, reshape.
DecodeMatrix(w) ==
    IF ~(/\ w.items[2].k = "str"
         /\ w.items[3].k = "list" /\ \A i \in 1..Len(w.items[3].items) :
                                        w.items[3].items[i].k = "num"
         /\ w.items[4].k \in {"str", "bytes"})
    THEN ErrorV("TypeError")
    ELSE LET dtype == w.items[2].s
             shape == [i \in 1..Len(w.items[3].items) |-> w.items[3].items[i].n]
             bytes == IF w.items[4].k = "str" THEN B64Decode(w.items[4].raw)
                                              ELSE w.items[4].raw
             elems == FromBytes(dtype, bytes)
         IN IF Len(bytes) % ItemSize(dtype) # 0 \/ Product(shape) # Len(elems)
            THEN ErrorV("ValueError")
            ELSE ArrayV(dtype, shape, elems)

\* ndarray.ravel()
Ravel(a) == IF a.k = "array" THEN ArrayV(a.s, <<Len(a.raw)>>, a.raw) ELSE a

\* _decode_sparse_matrix: row, col, value decoded and ravelled (None stays an
\* empty list), the shape coerced to ints, coo_matrix((value, (row, col)), shape).
DecodeSparse(w) ==
    LET part(i) == IF w.items[i].k = "null" THEN ArrayV("int16", <<0>>, <<>>)
                   ELSE IF w.items[i].k = "list" /\ Len(w.items[i].items) = 4
                   THEN Ravel(DecodeMatrix(w.items[i]))
                   ELSE ErrorV("TypeError")
    IN IF \/ w.items[2].k # "list"
          \/ \E i \in 3..5 : part(i).k = "error"
       THEN ErrorV("TypeError")
       ELSE SparseV([i \in 1..Len(w.items[2].items) |-> w.items[2].items[i].n],
                    part(3), part(4), part(5))

\* _encode_values
RECURSIVE EncodeValues(_, _)
EncodeValues(fmt, v) ==
    CASE v.k = "array" -> EncodeMatrix(fmt, v)
      [] v.k = "sparse" ->
            ListV(<<StrV("__sparse__"), ShapeList(v.shape)>>
                  \o [i \in 1..3 |-> EncodeMatrix(fmt, v.items[i])])
      [] v.k = "proxy" -> ListV(<<StrV("__object__"), v.items[1]>>)
      [] v.k = "func" -> ListV(<<StrV("__function__"), v.items[1]>>)
      [] v.k \in {"map", "list", "pair"} ->
            [v EXCEPT !.items = [i \in 1..Len(v.items) |-> EncodeValues(fmt, v.items[i])]]
      [] OTHER -> v

\* _decode_values
IsTagged(w, tag, len) ==
    w.k = "list" /\ Len(w.items) = len /\ w.items[1] = StrV(tag)

RECURSIVE DecodeValues(_)
DecodeValues(w) ==
    CASE IsTagged(w, "__matrix__", 4) -> DecodeMatrix(w)
      [] IsTagged(w, "__sparse__", 5) -> DecodeSparse(w)
      [] IsTagged(w, "__object__", 2) -> ProxyV(w.items[2])
      [] IsTagged(w, "__function__", 2) -> FuncV(w.items[2])
      [] OTHER ->
            IF w.k \in {"map", "list", "pair"}
            THEN [w EXCEPT !.items = [i \in 1..Len(w.items) |-> DecodeValues(w.items[i])]]
            ELSE w

\* ------------------------------------------------------------- the sockets
\* zmq.REQ: strict send/recv alternation.  A REQ socket accepts a request (and
\* signals POLLOUT) only while no earlier request awaits its reply.
CanSend_Dealer == ~sockClosed

CanSend == ~sockClosed /\ ~receiving_reply

PollOutReady == CanSend
PollInReady == ~sockClosed /\ receiving_reply /\ Len(toMaster) > 0

\* Popen.poll(): the cached returncode, else reap the child if it has exited.
ProcessPoll_Cached == returncode

ProcessPoll == IF returncode # None THEN returncode
               ELSE IF procAlive THEN None ELSE "exited"

\* ------------------------------------------------------------- the frames
Top == stack[Len(stack)]
Running == Len(stack) > 0

NewFrame(op, pc, p) ==
    [op |-> op, pc |-> pc, p |-> p,
     nsent |-> 0,                       \* requests this operation transmitted
     reply |-> None,                    \* type of the reply send_message read
     robj |-> -1,                       \* handle of the object the reply carries, or -1
     outstanding |-> FALSE,             \* a request was outstanding when the interrupt came
     trace |-> <<>>,                    \* what the interrupt handler did, in order
     deadAtStart |-> ~procAlive,
     closedAtStart |-> sockClosed,
     idleAtStart |-> ~receiving_reply,
     nested |-> Running,
     rfn |-> FALSE,                     \* the reply carries a function reference
     fun |-> -1,                        \* handle of the MatlabFunction invoked, or -1
     pos |-> <<>>,                      \* its positional arguments
     kw |-> <<>>,                       \* its keyword arguments, as <<key, value>> pairs
     ctor |-> 0,                        \* part of Matlab.__init__: 1 = self.eval, 2 = ('0;')
     ga |-> 0,                          \* part of Matlab.__getattr__: 1 = _get_global(name),
                                        \*   2 = the lookup of self.what, 3 = the call of it
     undef |-> FALSE,                   \* the remote answered _get_global(name) with an error
     pkg |-> FALSE,                     \* self.what(...) found a package of that name
     pa |-> "",                         \* part of MatlabProxyObject.__setattr__ ("set") or
                                        \*   __getattr__ ("get")
     px |-> 0,                          \* the proxy whose attribute is accessed
     attr |-> "",                       \* the attribute's name
     fn |-> "",                         \* the session function being looked up or called
     calls |-> <<>>,                    \* the session functions called so far, in order
     found |-> ""]                      \* what the name turned out to be

NoLast ==
    [op |-> "none", pc |-> "none", p |-> 0, nsent |-> 0, reply |-> None,
     robj |-> -1, outstanding |-> FALSE, trace |-> <<>>, deadAtStart |-> FALSE,
     closedAtStart |-> FALSE, idleAtStart |-> TRUE,
     nested |-> FALSE, rfn |-> FALSE, fun |-> -1, pos |-> <<>>, kw |-> <<>>, ctor |-> 0,
     ga |-> 0, undef |-> FALSE, pkg |-> FALSE,
     pa |-> "", px |-> 0, attr |-> "", fn |-> "", calls |-> <<>>, found |-> "",
     outcome |-> "none", via |-> "none"]

NoMsg == [type |-> "none", handle |-> -1, name |-> -1, args |-> <<>>]

NoResolution == [how |-> "none", name |-> "none", handle |-> -1, outcome |-> "none", obj |-> -1]
FileNone == "None"

NoFrame == [file |-> FileNone, line |-> 0, name |-> ""]
NoStack == [isDict |-> FALSE, dict |-> NoFrame, list |-> <<>>]
NoReply == [identifier |-> "", message |-> "", stack |-> NoStack]
NoRaise == [class |-> "none", stack |-> <<>>, identifier |-> "",
            original_message |-> "", trace |-> <<>>]
NoProxy == [id |-> 0, handle |-> -1]
NoShape == [hasType |-> FALSE, type |-> "", hasValue |-> FALSE, value |-> NullV]
NoResult == [outcome |-> "none", class |-> "none", value |-> NullV]
NoCodec == [stage |-> "idle", fmt |-> "json", v |-> NullV, wire |-> NullV,
            out |-> NullV, resp |-> NoReply, raised |-> NoRaise,
            alias |-> FALSE, pa |-> NoProxy, pb |-> NoProxy, eq |-> FALSE,
            op |-> "none", reply |-> NoShape, result |-> NoResult]

SetTop(f) == stack' = [stack EXCEPT ![Len(stack)] = f]
Goto(pc) == SetTop([Top EXCEPT !.pc = pc])

\* The top operation ends: it returns or its exception leaves it.
Finish(f, outcome, via) ==
    /\ stack' = SubSeq(stack, 1, Len(stack) - 1)
    /\ last' = [f EXCEPT !.pc = "none", !.robj = -1, !.rfn = FALSE]
                  @@ [outcome |-> outcome, via |-> via]
    /\ completed' = completed + 1
    /\ proxyState' = IF f.op = "del_proxy"
                     THEN [proxyState EXCEPT ![f.p] = "finalized"]
                     ELSE proxyState
    /\ session' = IF f.ctor > 0 THEN "failed" ELSE session

\* Names an attribute access of the session can use: a fresh name, a global
\* the remote module defines itself (import numpy as np), a Python builtin,
\* one of the session's local attribute names, a method of the session class.
GlobalNames == {"x", "np", "len", "socket", "exit"}
LocalNames == {"ipcfile", "context", "socket", "process", "msgformat"}
ClassAttrs == {"exit", "send_message"}
Builtins == {"len"}

UnsetV == MkV("unset", "", 0, <<>>, <<>>, <<>>)
LocalV(name) == MkV("local", name, 0, <<>>, <<>>, <<>>)     \* set by __init__
MethodV(name) == MkV("method", name, 0, <<>>, <<>>, <<>>)   \* a bound method

NoAttrResult == [how |-> "none", v |-> NullV]

InitGlobals == [n \in GlobalNames |-> IF n = "np" THEN PyObjV(1) ELSE UnsetV]

InitAttrs ==
    [dict |-> [n \in LocalNames |-> LocalV(n)],
     assigned |-> [n \in GlobalNames |-> UnsetV],   \* the value last assigned with success
     pc |-> "idle", op |-> "none", name |-> "", v |-> NullV,
     result |-> NoAttrResult]

\* What a client of the table knows from the replies it got: owner[h + 1] is
\* the object handle h was issued for (Tombstone once it released h), peak
\* the largest number of handles it held at once; ok turns FALSE for good
\* when it releases a handle it does not hold.
NoLedger == [ok |-> TRUE, peak |-> 0, owner |-> <<>>]
BadLedger == [ok |-> FALSE, peak |-> 0, owner |-> <<>>]

Held(owner) == {i \in 1..Len(owner) : owner[i] # Tombstone}

Issued(l, idx, data) ==
    IF ~l.ok THEN l
    ELSE LET o == IF idx < Len(l.owner) THEN [l.owner EXCEPT ![idx + 1] = data]
                  ELSE Append(l.owner, data)
             n == Cardinality(Held(o))
         IN [ok |-> TRUE, peak |-> IF n > l.peak THEN n ELSE l.peak, owner |-> o]

Released(l, handle) ==
    IF l.ok /\ handle >= 0 /\ handle < Len(l.owner) /\ l.owner[handle + 1] # Tombstone
    THEN [l EXCEPT !.owner[handle + 1] = Tombstone]
    ELSE BadLedger

Init ==
    /\ stack = <<>>
    /\ last = NoLast
    /\ completed = 0
    /\ sockClosed = FALSE
    /\ returncode = None
    /\ procAlive = TRUE
    /\ crashed = FALSE
    /\ reader = "running"
    /\ receiving_reply = FALSE
    /\ toRemote = <<>>
    /\ toMaster = <<>>
    /\ rpc = "recv"
    /\ rmsg = NoMsg
    /\ object_cache = <<>>
    /\ empty_cache_indexes = <<>>
    /\ hist = <<>>
    /\ tableOps = 0
    /\ proxyState = [p \in Proxies |-> "unborn"]
    /\ proxyHandle = [p \in Proxies |-> 0]
    /\ delSent = [p \in Proxies |-> 0]
    /\ sent = 0
    /\ recvd = 0
    /\ sigints = 0
    /\ nOps = 0
    /\ nInts = 0
    /\ resolved = NoResolution
    /\ funs = {}
    /\ session = "ready"
    /\ codec = NoCodec
    /\ globals = InitGlobals
    /\ attrs = InitAttrs
    /\ ledger = NoLedger

\* ------------------------------------------------- master: starting operations
\* A user-level operation begins: session.name, session.name = v, a call
\* (plain, or on a live proxy p: attribute access, method call, str()), exit().
StartOp(op, p) ==
    /\ session = "ready"
    /\ ~Running
    /\ nOps < MaxOps
    /\ p # 0 => op \in {"call", "set_global"} /\ proxyState[p] = "live"
    /\ stack' = <<NewFrame(op, IF op = "exit" THEN "x_check" ELSE "wo_check", p)>>
    /\ nOps' = nOps + 1
    /\ UNCHANGED <<last, completed, sockClosed, returncode, procAlive, crashed, reader,
                   receiving_reply, toRemote, toMaster, remoteVars, tableOps,
                   proxyState, proxyHandle, delSent, sent, recvd, sigints, nInts, resolved, funs, session, codec, globals, attrs, ledger>>

\* MatlabFunction.__call__: the decoded callable for function handle h is
\* invoked with positional arguments pos and keyword arguments kw.
StartCallFn(h, pos, kw) ==
    /\ session = "ready"
    /\ ~Running
    /\ nOps < MaxOps
    /\ h \in funs
    /\ stack' = <<[NewFrame("call", "wo_check", 0) EXCEPT
                     !.fun = h, !.pos = pos, !.kw = kw]>>
    /\ nOps' = nOps + 1
    /\ UNCHANGED <<last, completed, sockClosed, returncode, procAlive, crashed, reader,
                   receiving_reply, toRemote, toMaster, remoteVars, tableOps,
                   proxyState, proxyHandle, delSent, sent, recvd, sigints, nInts,
                   resolved, funs, session, codec, globals, attrs, ledger>>

\* MatlabProxyObject.__del__: the interpreter finalizes proxy p, between two
\* operations or (garbage collection) in the middle of one.
StartFinalizer(p) ==
    /\ proxyState[p] = "live"
    /\ nOps < MaxOps
    /\ Len(stack) <= 1
    /\ Running => Top.op # "del_proxy" /\ Top.p # p
    /\ stack' = Append(stack, NewFrame("del_proxy", "d_check", p))
    /\ proxyState' = [proxyState EXCEPT ![p] = "finalizing"]
    /\ nOps' = nOps + 1
    /\ UNCHANGED <<last, completed, sockClosed, returncode, procAlive, crashed, reader,
                   receiving_reply, toRemote, toMaster, remoteVars, tableOps,
                   proxyHandle, delSent, sent, recvd, sigints, nInts, resolved, funs, session, codec, globals, attrs, ledger>>

\* _del_proxy: ignore if the socket is closed, else send_message('del_proxy').
DelCheck_NoClosedTest ==
    /\ Running /\ Top.pc = "d_check"
    /\ Goto("wo_check")
    /\ UNCHANGED <<last, completed, proxyState, sockClosed, returncode, procAlive,
                   crashed, reader, receiving_reply, toRemote, toMaster, remoteVars,
                   tableOps, proxyHandle, delSent, sent, recvd, sigints, nOps, nInts, resolved, funs, session, codec, globals, attrs, ledger>>

DelCheck_Inverted ==
    /\ Running /\ Top.pc = "d_check"
    /\ IF ~sockClosed
       THEN Finish(Top, "skipped", "return")
       ELSE Goto("wo_check") /\ UNCHANGED <<last, completed, proxyState, session>>
    /\ UNCHANGED <<sockClosed, returncode, procAlive, crashed, reader, receiving_reply,
                   toRemote, toMaster, remoteVars, tableOps, proxyHandle, delSent,
                   sent, recvd, sigints, nOps, nInts, resolved, funs, codec, globals, attrs, ledger>>

DelCheck ==
    /\ Running /\ Top.pc = "d_check"
    /\ IF sockClosed
       THEN Finish(Top, "skipped", "return")
       ELSE Goto("wo_check") /\ UNCHANGED <<last, completed, proxyState, session>>
    /\ UNCHANGED <<sockClosed, returncode, procAlive, crashed, reader, receiving_reply,
                   toRemote, toMaster, remoteVars, tableOps, proxyHandle, delSent,
                   sent, recvd, sigints, nOps, nInts, resolved, funs, codec, globals, attrs, ledger>>

\* ------------------------------------------------------ master: send_message
WaitPcs == {"wo_check", "wo_poll", "wi_check", "wi_poll"}
SendMessagePcs == WaitPcs \cup {"send", "recv", "decode"}
HandlerPcs == {"h_sig", "h_recv", "h_raise"}

\* The class of the exception an operation ended with: _wait_socket raises a
\* plain RuntimeError('Process died unexpectedly'), send_message raises
\* TransplantError for an 'error' reply, pyzmq raises ZMQError.
ExceptionClass(outcome) ==
    CASE outcome = "ProcessDied" -> "RuntimeError"
      [] outcome = "TransplantError" -> "TransplantError"
      [] outcome = "ZMQError" -> "ZMQError"
      [] outcome = "KeyboardInterrupt" -> "KeyboardInterrupt"
      [] OTHER -> "none"

\* _wait_socket, first half of an iteration: process.poll(), raise if it exited.
WaitCheck_NoPoll ==
    /\ Running /\ Top.pc \in {"wo_check", "wi_check"}
    /\ Goto(IF Top.pc = "wo_check" THEN "wo_poll" ELSE "wi_poll")
    /\ UNCHANGED <<last, completed, proxyState, returncode>>
    /\ UNCHANGED <<sockClosed, procAlive, crashed, reader, receiving_reply, toRemote,
                   toMaster, remoteVars, tableOps, proxyHandle, delSent, sent,
                   recvd, sigints, nOps, nInts, resolved, funs, session, codec, globals, attrs, ledger>>

WaitCheck ==
    /\ Running /\ Top.pc \in {"wo_check", "wi_check"}
    /\ returncode' = ProcessPoll
    /\ IF returncode' # None
       THEN Finish(Top, "ProcessDied", "raise")
       ELSE /\ Goto(IF Top.pc = "wo_check" THEN "wo_poll" ELSE "wi_poll")
            /\ UNCHANGED <<last, completed, proxyState, session>>
    /\ UNCHANGED <<sockClosed, procAlive, crashed, reader, receiving_reply, toRemote,
                   toMaster, remoteVars, tableOps, proxyHandle, delSent, sent,
                   recvd, sigints, nOps, nInts, resolved, funs, codec, globals, attrs, ledger>>

\* _wait_socket, second half: socket.poll(timeout, flags); return when ready,
\* loop after the timeout otherwise.
WaitPoll ==
    /\ Running /\ Top.pc \in {"wo_poll", "wi_poll"}
    /\ IF sockClosed
       THEN Finish(Top, "ZMQError", "raise")
       ELSE /\ UNCHANGED <<last, completed, proxyState, session>>
            /\ IF Top.pc = "wo_poll"
               THEN Goto(IF PollOutReady THEN "send" ELSE "wo_check")
               ELSE Goto(IF PollInReady THEN "recv" ELSE "wi_check")
    /\ UNCHANGED <<sockClosed, returncode, procAlive, crashed, reader, receiving_reply,
                   toRemote, toMaster, remoteVars, tableOps, proxyHandle, delSent,
                   sent, recvd, sigints, nOps, nInts, resolved, funs, codec, globals, attrs, ledger>>

\* args += sum(kwargs.items(), ()): the keyword arguments follow the
\* positional ones as key, value, key, value, ...
RECURSIVE Flatten_KeysOnly(_)
Flatten_KeysOnly(kw) ==
    IF kw = <<>> THEN <<>> ELSE <<kw[1][1]>> \o Flatten_KeysOnly(Tail(kw))

RECURSIVE Flatten(_)
Flatten(kw) ==
    IF kw = <<>> THEN <<>> ELSE <<kw[1][1], kw[1][2]>> \o Flatten(Tail(kw))

\* the name 'what' (a handle is >= 0, any other name is -1)
NameWhat == -2

\* the names of the session functions a proxy's attribute access uses
NameCode == [substruct |-> -3, subsasgn |-> -4, properties |-> -5,
             methods |-> -6, subsref |-> -7]

\* The request send_message builds.  A proxy (an operand of the call, or the
\* value assigned) is encoded by _encode_proxy as ["__object__", handle]; a
\* MatlabFunction is invoked by _call(self._fun, args).
Request(f) ==
    [type |-> IF f.op = "exit" THEN "die" ELSE f.op,
     handle |-> IF f.p # 0 THEN proxyHandle[f.p] ELSE -1,
     name |-> IF f.ga = 2 THEN NameWhat ELSE f.fun,
     args |-> f.pos \o Flatten(f.kw)]

\* socket.send(..., NOBLOCK): a REQ socket refuses to send while it awaits a reply.
Send ==
    /\ Running /\ Top.pc = "send"
    /\ IF ~CanSend
       THEN /\ Finish(Top, "ZMQError", "raise")
            /\ UNCHANGED <<receiving_reply, toRemote, sent, delSent>>
       ELSE /\ toRemote' = Append(toRemote, Request(Top))
            /\ receiving_reply' = TRUE
            /\ sent' = sent + 1
            /\ delSent' = IF Top.op = "del_proxy"
                          THEN [delSent EXCEPT ![Top.p] = @ + 1] ELSE delSent
            /\ SetTop([Top EXCEPT !.pc = "wi_check", !.nsent = @ + 1])
            /\ UNCHANGED <<last, completed, proxyState, session>>
    /\ UNCHANGED <<sockClosed, returncode, procAlive, crashed, reader, toMaster,
                   remoteVars, tableOps, proxyHandle, recvd, sigints, nOps, nInts, resolved, funs, codec, globals, attrs, ledger>>

\* socket.recv(NOBLOCK) after the POLLIN wait.
Recv ==
    /\ Running /\ Top.pc = "recv"
    /\ IF ~PollInReady
       THEN /\ Finish(Top, "ZMQError", "raise")
            /\ UNCHANGED <<receiving_reply, toMaster, recvd>>
       ELSE /\ toMaster' = Tail(toMaster)
            /\ receiving_reply' = FALSE
            /\ recvd' = recvd + 1
            /\ SetTop([Top EXCEPT !.pc = "decode", !.reply = Head(toMaster).type,
                                  !.robj = Head(toMaster).obj,
                                  !.rfn = Head(toMaster).fn])
            /\ UNCHANGED <<last, completed, proxyState, session>>
    /\ UNCHANGED <<sockClosed, returncode, procAlive, crashed, reader, toRemote,
                   remoteVars, tableOps, proxyHandle, delSent, sent, sigints,
                   nOps, nInts, resolved, funs, codec, globals, attrs, ledger>>

FreshProxy == CHOOSE p \in Proxies : proxyState[p] = "unborn" /\
                  \A q \in Proxies : proxyState[q] = "unborn" => p <= q

\* _decode_values, then: raise TransplantError for an 'error' reply, else return
\* the response to the caller (exit goes on to process.wait()).
RaisesOnReply_Never(reply) == FALSE

RaisesOnReply(reply) == reply = "error"

\* Matlab.__getattr__ after _get_global(name) raised TransplantError:
\* packagedict = self.what(name.replace('.', '/')) - the lookup of self.what
\* (another __getattr__), then the call of it; the error is re-raised unless
\* the identifier is 'TRANSPLANT:novariable' and packagedict is not empty.
\* (pkg stands for that conjunction.)
Reraises_Never(pkg) == FALSE

Reraises(pkg) == ~pkg

Undefined(f) == f.undef \/ (f.ga = 1 /\ f.reply = "error")

Decode ==
    /\ Running /\ Top.pc = "decode" /\ Top.pa = ""
    /\ IF RaisesOnReply(Top.reply) /\ Top.ga = 1
       THEN /\ SetTop([NewFrame("get_global", "wo_check", 0) EXCEPT
                         !.ga = 2, !.undef = TRUE, !.ctor = Top.ctor,
                         !.nested = Top.nested])
            /\ UNCHANGED <<last, completed, proxyState, proxyHandle, funs, session>>
       ELSE IF RaisesOnReply(Top.reply)
       THEN /\ Finish(Top, "TransplantError", "raise")
            /\ UNCHANGED <<proxyHandle, funs>>
       ELSE IF Top.op = "exit"
       THEN /\ Goto("x_wait")
            /\ UNCHANGED <<last, completed, proxyState, proxyHandle, funs, session>>
       ELSE IF Top.ga = 2 /\ Top.robj >= 0 /\ Top.rfn
       THEN \* self.what is a MatlabFunction; now call it with the name
            /\ SetTop([NewFrame("call", "wo_check", 0) EXCEPT
                         !.ga = 3, !.undef = TRUE, !.ctor = Top.ctor,
                         !.fun = Top.robj, !.pos = <<"name">>,
                         !.nested = Top.nested])
            /\ UNCHANGED <<last, completed, proxyState, proxyHandle, funs, session>>
       ELSE IF Top.ga = 2
       THEN \* self.what is not callable
            /\ Finish([Top EXCEPT !.undef = TRUE], "TypeError", "raise")
            /\ UNCHANGED <<proxyHandle, funs>>
       ELSE IF Top.ctor = 1 /\ Top.ga < 3 /\ Top.robj >= 0 /\ Top.rfn
       THEN \* __init__: self.eval is a MatlabFunction; now call it with '0;'
            /\ SetTop([NewFrame("call", "wo_check", 0) EXCEPT
                         !.ctor = 2, !.fun = Top.robj, !.pos = <<"0;">>,
                         !.nested = FALSE])
            /\ funs' = funs \cup {Top.robj}
            /\ UNCHANGED <<last, completed, proxyState, proxyHandle, session>>
       ELSE \E pkg \in IF Top.ga = 3 /\ Top.reply = "value" THEN BOOLEAN ELSE {FALSE} :
            /\ session' = CASE Top.ctor = 1 -> "failed"   \* self.eval is not callable
                             [] Top.ctor = 2 -> "ready"
                             [] OTHER -> session
            /\ stack' = SubSeq(stack, 1, Len(stack) - 1)
            /\ last' = [Top EXCEPT !.pc = "none", !.robj = -1, !.rfn = FALSE,
                                   !.undef = Undefined(Top), !.pkg = pkg]
                          @@ [outcome |-> CASE Top.ga = 3 /\ Reraises(pkg) -> "TransplantError"
                                            [] Top.ctor = 1 -> "TypeError"
                                            [] OTHER -> "ok",
                              via |-> IF (Top.ga = 3 /\ Reraises(pkg)) \/ Top.ctor = 1
                                      THEN "raise" ELSE "return"]
            /\ completed' = completed + 1
            /\ IF Top.robj >= 0 /\ Top.rfn
               THEN \* _decode_function: a MatlabFunction around the handle
                    /\ funs' = funs \cup {Top.robj}
                    /\ UNCHANGED <<proxyState, proxyHandle>>
               ELSE IF Top.robj >= 0
               THEN \* _decode_proxy: a new proxy object around the handle
                    /\ proxyState' = [proxyState EXCEPT ![FreshProxy] = "live"]
                    /\ proxyHandle' = [proxyHandle EXCEPT ![FreshProxy] = Top.robj]
                    /\ UNCHANGED funs
               ELSE /\ proxyState' = IF Top.op = "del_proxy"
                                     THEN [proxyState EXCEPT ![Top.p] = "finalized"]
                                     ELSE proxyState
                    /\ UNCHANGED <<proxyHandle, funs>>
    /\ UNCHANGED <<sockClosed, returncode, procAlive, crashed, reader, receiving_reply,
                   toRemote, toMaster, remoteVars, tableOps, delSent, sent, recvd,
                   sigints, nOps, nInts, resolved, codec, globals, attrs, ledger>>

\* ------------------------------------------- master: KeyboardInterrupt, _call
\* A KeyboardInterrupt is raised in the main thread at its current position.
\* Matlab._call catches it around send_message; everywhere else (and inside the
\* handler itself) it leaves the operation.
Interrupt ==
    /\ Running
    /\ nInts < MaxInterrupts
    /\ nInts' = nInts + 1
    /\ IF Top.op = "call" /\ Top.pc \in SendMessagePcs
       THEN /\ SetTop([Top EXCEPT !.pc = "h_sig",
                         !.outstanding = (Top.nsent = 1 /\ Top.reply = None)])
            /\ UNCHANGED <<last, completed, proxyState, session>>
       ELSE Finish(Top, "KeyboardInterrupt", "async")
    /\ UNCHANGED <<sockClosed, returncode, procAlive, crashed, reader, receiving_reply,
                   toRemote, toMaster, remoteVars, tableOps, proxyHandle, delSent,
                   sent, recvd, sigints, nOps, resolved, funs, codec, globals, attrs, ledger>>

\* self.process.send_signal(SIGINT); Popen.send_signal polls the child first
\* on newer Pythons and does not on older ones.
HandlerSignal ==
    /\ Running /\ Top.pc = "h_sig"
    /\ sigints' = sigints + 1
    /\ returncode' \in {returncode, ProcessPoll}
    /\ SetTop([Top EXCEPT !.pc = "h_recv", !.trace = Append(@, "sigint")])
    /\ UNCHANGED <<last, completed, proxyState, sockClosed, procAlive,
                   crashed, reader, receiving_reply, toRemote, toMaster, remoteVars,
                   tableOps, proxyHandle, delSent, sent, recvd, nOps, nInts, resolved, funs, session, codec, globals, attrs, ledger>>

\* self.socket.recv(): blocking; a REQ socket with no request outstanding
\* refuses to receive.
HandlerRecv_NoDrain ==
    /\ Running /\ Top.pc = "h_recv"
    /\ Goto("h_raise")
    /\ UNCHANGED <<last, completed, proxyState, sockClosed, returncode, procAlive,
                   crashed, reader, receiving_reply, toRemote, toMaster, remoteVars,
                   tableOps, proxyHandle, delSent, sent, recvd, sigints, nOps, nInts, resolved, funs, session, codec, globals, attrs, ledger>>

HandlerRecv ==
    /\ Running /\ Top.pc = "h_recv"
    /\ IF sockClosed \/ ~receiving_reply
       THEN /\ Finish(Top, "ZMQError", "raise")
            /\ UNCHANGED <<receiving_reply, toMaster, recvd>>
       ELSE /\ Len(toMaster) > 0
            /\ toMaster' = Tail(toMaster)
            /\ receiving_reply' = FALSE
            /\ recvd' = recvd + 1
            /\ SetTop([Top EXCEPT !.pc = "h_raise", !.trace = Append(@, "recv")])
            /\ UNCHANGED <<last, completed, proxyState, session>>
    /\ UNCHANGED <<sockClosed, returncode, procAlive, crashed, reader, toRemote,
                   remoteVars, tableOps, proxyHandle, delSent, sent, sigints,
                   nOps, nInts, resolved, funs, codec, globals, attrs, ledger>>

\* raise exc
HandlerRaise ==
    /\ Running /\ Top.pc = "h_raise"
    /\ Finish(Top, "KeyboardInterrupt", "reraise")
    /\ UNCHANGED <<sockClosed, returncode, procAlive, crashed, reader, receiving_reply,
                   toRemote, toMaster, remoteVars, tableOps, proxyHandle, delSent,
                   sent, recvd, sigints, nOps, nInts, resolved, funs, codec, globals, attrs, ledger>>

\* ------------------------------------------------------------ master: exit
\* TransplantMaster.exit: nothing to do if the returncode is already known.
ExitCheck ==
    /\ Running /\ Top.pc = "x_check"
    /\ Goto(IF returncode # None THEN "x_close" ELSE "wo_check")
    /\ UNCHANGED <<last, completed, proxyState, sockClosed, returncode, procAlive,
                   crashed, reader, receiving_reply, toRemote, toMaster, remoteVars,
                   tableOps, proxyHandle, delSent, sent, recvd, sigints, nOps, nInts, resolved, funs, session, codec, globals, attrs, ledger>>

\* self.process.wait()
ExitWait ==
    /\ Running /\ Top.pc = "x_wait"
    /\ returncode # None \/ ~procAlive
    /\ returncode' = ProcessPoll
    /\ Goto("x_close")
    /\ UNCHANGED <<last, completed, proxyState, sockClosed, procAlive, crashed, reader,
                   receiving_reply, toRemote, toMaster, remoteVars, tableOps,
                   proxyHandle, delSent, sent, recvd, sigints, nOps, nInts, resolved, funs, session, codec, globals, attrs, ledger>>

\* Matlab.exit: self.socket.close(); self.context.term()
ExitClose ==
    /\ Running /\ Top.pc = "x_close"
    /\ sockClosed' = TRUE
    /\ Finish(Top, "ok", "return")
    /\ UNCHANGED <<returncode, procAlive, crashed, reader, receiving_reply, toRemote,
                   toMaster, remoteVars, tableOps, proxyHandle, delSent, sent,
                   recvd, sigints, nOps, nInts, resolved, funs, codec, globals, attrs, ledger>>

\* ------------------------------------------------------------- the remote
Reply(type, obj) == [type |-> type, obj |-> obj, fn |-> FALSE]
ReplyFunction(idx) == [type |-> "value", obj |-> idx, fn |-> TRUE]

\* func = self.object_cache[msg['name']] for a call whose name is a handle:
\* the call goes ahead only if the lookup yields something to call.
CallByHandle == rmsg.type = "call" /\ rmsg.name >= 0

CallTargetOk ==
    CallByHandle =>
        Resolution("call", "-", object_cache, rmsg.name).outcome = "value"

CallResolved ==
    IF CallByHandle THEN Resolution("call", "-", object_cache, rmsg.name) ELSE resolved

\* msg = self.decode_values(self.socket.recv_json()): an embedded
\* ["__object__", handle] is resolved here, before the try block.
EmbedsReference(msg) == msg.type \in {"call", "set_global"} /\ msg.handle >= 0

RemoteRecv ==
    /\ procAlive /\ rpc = "recv"
    /\ Len(toRemote) > 0
    /\ rmsg' = Head(toRemote)
    /\ toRemote' = Tail(toRemote)
    /\ resolved' = IF EmbedsReference(Head(toRemote))
                   THEN Resolution("embedded", "-", object_cache, Head(toRemote).handle)
                   ELSE resolved
    /\ IF EmbedsReference(Head(toRemote)) /\ resolved'.outcome = "crash"
       THEN procAlive' = FALSE /\ crashed' = TRUE /\ rpc' = "dead"
       ELSE rpc' = "handle" /\ UNCHANGED <<procAlive, crashed>>
    /\ UNCHANGED <<masterVars, reader, toMaster, object_cache,
                   empty_cache_indexes, hist, tableOps, nInts, funs, session, codec, globals, attrs, ledger>>

\* 'die': send_ack(), then sys.exit(0)
RemoteDie ==
    /\ procAlive /\ rpc = "handle" /\ rmsg.type = "die"
    /\ toMaster' = Append(toMaster, Reply("ack", -1))
    /\ rpc' = "exit"
    /\ UNCHANGED <<masterVars, procAlive, crashed, reader, toRemote, rmsg, object_cache,
                   empty_cache_indexes, hist, tableOps, nInts, resolved, funs, session, codec, globals, attrs, ledger>>

RemoteExit ==
    /\ procAlive /\ rpc = "exit"
    /\ procAlive' = FALSE
    /\ rpc' = "dead"
    /\ UNCHANGED <<masterVars, crashed, reader, toRemote, toMaster, rmsg, object_cache,
                   empty_cache_indexes, hist, tableOps, nInts, resolved, funs, session, codec, globals, attrs, ledger>>

\* set_global: send_ack()
\* 'what' is a function of every remote the Matlab class drives (a MATLAB
\* built-in), and so are substruct, subsasgn, subsref, properties and
\* methods: a lookup of one of them is answered with a function handle.
WhatLookup == rmsg.type = "get_global" /\ rmsg.name <= NameWhat

RemoteAck ==
    /\ procAlive /\ rpc = "handle" /\ rmsg.type \in {"set_global", "call"}
    /\ CallTargetOk
    /\ resolved' = CallResolved
    /\ toMaster' = Append(toMaster, Reply("ack", -1))
    /\ rpc' = "recv"
    /\ UNCHANGED <<masterVars, procAlive, crashed, reader, toRemote, rmsg, object_cache,
                   empty_cache_indexes, hist, tableOps, nInts, funs, session, codec, globals, attrs, ledger>>

\* get_global, call: send_value(value) with a plain value
RemoteValue ==
    /\ procAlive /\ rpc = "handle" /\ rmsg.type \in {"get_global", "call"}
    /\ ~WhatLookup
    /\ CallTargetOk
    /\ resolved' = CallResolved
    /\ toMaster' = Append(toMaster, Reply("value", -1))
    /\ rpc' = "recv"
    /\ UNCHANGED <<masterVars, procAlive, crashed, reader, toRemote, rmsg, object_cache,
                   empty_cache_indexes, hist, tableOps, nInts, funs, session, codec, globals, attrs, ledger>>

\* get_global, call: send_value(value) where the value is an object:
\* encode_values allocates a handle for it (encode_proxy).
RemoteValueObject(data) ==
    /\ procAlive /\ rpc = "handle" /\ rmsg.type \in {"get_global", "call"}
    /\ ~WhatLookup
    /\ CallTargetOk
    /\ resolved' = CallResolved
    /\ \E p \in Proxies : proxyState[p] = "unborn"
    /\ LET r == EncodeProxy(object_cache, empty_cache_indexes, data) IN
         /\ object_cache' = r.cache
         /\ empty_cache_indexes' = r.free
         /\ hist' = Last3(Append(hist, AllocEvent(r, data, empty_cache_indexes)))
         /\ toMaster' = Append(toMaster, Reply("value", r.idx))
    /\ rpc' = "recv"
    /\ UNCHANGED <<masterVars, procAlive, crashed, reader, toRemote, rmsg, tableOps,
                   nInts, funs, session, codec, globals, attrs, ledger>>

\* get_global, call: send_value(value) where the value is a function:
\* encode_values allocates a handle for it (encode_function).
RemoteValueFunction(data) ==
    /\ procAlive /\ rpc = "handle" /\ rmsg.type \in {"get_global", "call"}
    /\ CallTargetOk
    /\ resolved' = CallResolved
    /\ Cardinality(funs) < MaxFuns \/ WhatLookup
    /\ WhatLookup => data = 1          \* the built-in function itself
    /\ LET r == EncodeProxy(object_cache, empty_cache_indexes, data) IN
         /\ object_cache' = r.cache
         /\ empty_cache_indexes' = r.free
         /\ hist' = Last3(Append(hist, AllocEvent(r, data, empty_cache_indexes)))
         /\ toMaster' = Append(toMaster, ReplyFunction(r.idx))
    /\ rpc' = "recv"
    /\ UNCHANGED <<masterVars, procAlive, crashed, reader, toRemote, rmsg, tableOps,
                   nInts, funs, session, codec, globals, attrs, ledger>>

\* del_proxy: tombstone the slot, append the handle to the free list, send_ack();
\* an IndexError is answered with send_error.
RemoteDelProxy ==
    /\ procAlive /\ rpc = "handle" /\ rmsg.type = "del_proxy"
    /\ IF HandleInRange(object_cache, rmsg.handle)
       THEN LET r == DelProxy(object_cache, empty_cache_indexes, rmsg.handle) IN
              /\ object_cache' = r.cache
              /\ empty_cache_indexes' = r.free
              /\ hist' = Last3(Append(hist, ReleaseEvent(rmsg.handle, empty_cache_indexes)))
              /\ toMaster' = Append(toMaster, Reply("ack", -1))
       ELSE /\ toMaster' = Append(toMaster, Reply("error", -1))
            /\ UNCHANGED <<object_cache, empty_cache_indexes, hist>>
    /\ rpc' = "recv"
    /\ UNCHANGED <<masterVars, procAlive, crashed, reader, toRemote, rmsg, tableOps, nInts, resolved, funs, session, codec, globals, attrs, ledger>>

\* except Exception as err: self.send_error(err)
RemoteError ==
    /\ procAlive /\ rpc = "handle" /\ rmsg.type \in {"set_global", "get_global", "call"}
    /\ ~WhatLookup
    /\ resolved' = CallResolved
    /\ toMaster' = Append(toMaster, Reply("error", -1))
    /\ rpc' = "recv"
    /\ UNCHANGED <<masterVars, procAlive, crashed, reader, toRemote, rmsg, object_cache,
                   empty_cache_indexes, hist, tableOps, nInts, funs, session, codec, globals, attrs, ledger>>

\* The child process dies on its own (a crash, a kill), at any time.
ProcDie ==
    /\ procAlive
    /\ procAlive' = FALSE
    /\ crashed' = TRUE
    /\ rpc' = "dead"
    /\ UNCHANGED <<masterVars, reader, toRemote, toMaster, rmsg, object_cache,
                   empty_cache_indexes, hist, tableOps, nInts, resolved, funs, session, codec, globals, attrs, ledger>>

\* --------------------------------------------------- the stdout reader
\* reader(): for line in iter(stdout.readline, bytes()): print(line.decode())
\* readline returns one line of the child's output
ReaderReadline ==
    /\ reader = "running"
    /\ procAlive
    /\ reader' = "printing"
    /\ UNCHANGED <<masterVars, procAlive, crashed, toRemote, toMaster, remoteVars,
                   tableOps, nInts, resolved, funs, session, codec, globals, attrs, ledger>>

\* print(line.decode(), end=''), then back to readline
ReaderEcho_Drains ==
    /\ reader = "printing"
    /\ reader' = "running"
    /\ toMaster' = IF Len(toMaster) > 0 THEN Tail(toMaster) ELSE toMaster
    /\ UNCHANGED <<masterVars, procAlive, crashed, toRemote, remoteVars,
                   tableOps, nInts, resolved, funs, session, codec, globals, attrs, ledger>>

ReaderEcho ==
    /\ reader = "printing"
    /\ reader' = "running"
    /\ UNCHANGED <<masterVars, procAlive, crashed, toRemote, toMaster, remoteVars,
                   tableOps, nInts, resolved, funs, session, codec, globals, attrs, ledger>>

\* readline returns bytes() at end-of-file (the child has exited): the thread ends.
ReaderEof ==
    /\ reader = "running"
    /\ ~procAlive
    /\ reader' = "done"
    /\ UNCHANGED <<masterVars, procAlive, crashed, toRemote, toMaster, remoteVars,
                   tableOps, nInts, resolved, funs, session, codec, globals, attrs, ledger>>

\* ------------------------------------------------------- the specification
\* Arguments a decoded function is invoked with.
CallInputs ==
    {[pos |-> <<>>, kw |-> <<>>],
     [pos |-> <<"a">>, kw |-> <<>>],
     [pos |-> <<"a">>, kw |-> << <<"k", "v">> >>],
     [pos |-> <<>>, kw |-> << <<"k", "v">>, <<"l", "w">> >>]}

MasterStep ==
    \/ DelCheck \/ WaitCheck \/ WaitPoll \/ Send \/ Recv \/ Decode
    \/ HandlerSignal \/ HandlerRecv \/ HandlerRaise
    \/ ExitCheck \/ ExitWait \/ ExitClose

RemoteStep ==
    \/ RemoteRecv \/ RemoteDie \/ RemoteExit \/ RemoteAck \/ RemoteValue
    \/ (\E d \in Objs : RemoteValueObject(d))
    \/ (\E d \in Objs : RemoteValueFunction(d))
    \/ RemoteDelProxy \/ RemoteError

Next ==
    \/ \E op \in {"get_global", "set_global", "call", "exit"} : StartOp(op, 0)
    \/ \E p \in Proxies : StartOp("call", p) \/ StartOp("set_global", p)
    \/ \E h \in funs, a \in CallInputs : StartCallFn(h, a.pos, a.kw)
    \/ \E p \in Proxies : StartFinalizer(p)
    \/ MasterStep
    \/ Interrupt
    \/ RemoteStep
    \/ ProcDie

Spec == Init /\ [][Next]_vars

\* Construction.  Matlab.__init__ has created the context, bound the REQ
\* socket, launched the child and started the reader; its last statement,
\* self.eval('0;'), reads the global 'eval' (a get_global exchange) and calls
\* the function it got with '0;' (a call exchange).
ConstructorHandshake_Skipped ==
    /\ session = "launched"
    /\ session' = "ready"
    /\ UNCHANGED <<stack, last, completed, sockClosed, returncode, procAlive, crashed,
                   reader, receiving_reply, toRemote, toMaster, remoteVars, tableOps,
                   proxyState, proxyHandle, delSent, sent, recvd, sigints, nOps,
                   nInts, resolved, funs, codec, globals, attrs, ledger>>

\* (The constructor's two exchanges count against the bound on operations.)
ConstructorHandshake ==
    /\ session = "launched"
    /\ session' = "constructing"
    /\ stack' = <<[NewFrame("get_global", "wo_check", 0) EXCEPT !.ctor = 1, !.ga = 1]>>
    /\ nOps' = nOps + 2
    /\ UNCHANGED <<last, completed, sockClosed, returncode, procAlive, crashed,
                   reader, receiving_reply, toRemote, toMaster, remoteVars, tableOps,
                   proxyState, proxyHandle, delSent, sent, recvd, sigints,
                   nInts, resolved, funs, codec, globals, attrs, ledger>>

InitStartup ==
    /\ stack = <<>>
    /\ last = NoLast
    /\ completed = 0
    /\ sockClosed = FALSE
    /\ returncode = None
    /\ procAlive = TRUE
    /\ crashed = FALSE
    /\ reader = "running"
    /\ receiving_reply = FALSE
    /\ toRemote = <<>>
    /\ toMaster = <<>>
    /\ rpc = "recv"
    /\ rmsg = NoMsg
    /\ object_cache = <<>>
    /\ empty_cache_indexes = <<>>
    /\ hist = <<>>
    /\ tableOps = 0
    /\ proxyState = [p \in Proxies |-> "unborn"]
    /\ proxyHandle = [p \in Proxies |-> 0]
    /\ delSent = [p \in Proxies |-> 0]
    /\ sent = 0
    /\ recvd = 0
    /\ sigints = 0
    /\ nOps = 0
    /\ nInts = 0
    /\ resolved = NoResolution
    /\ funs = {}
    /\ session = "launched"
    /\ codec = NoCodec
    /\ globals = InitGlobals
    /\ attrs = InitAttrs
    /\ ledger = NoLedger

NextStartup ==
    \/ ConstructorHandshake
    \/ Next

SpecStartup == InitStartup /\ [][NextStartup]_vars

\* The remote program on its own, serving table requests of an arbitrary client:
\* a request whose value is an object (encode_proxy / encode_function) ...
TableAllocate(data) ==
    /\ procAlive
    /\ tableOps < MaxTableOps
    /\ tableOps' = tableOps + 1
    /\ LET r == EncodeProxy(object_cache, empty_cache_indexes, data) IN
         /\ object_cache' = r.cache
         /\ empty_cache_indexes' = r.free
         /\ hist' = Last3(Append(hist, AllocEvent(r, data, empty_cache_indexes)))
         /\ ledger' = Issued(ledger, r.idx, data)
    /\ UNCHANGED <<masterVars, procAlive, crashed, reader, toRemote, toMaster, rpc, rmsg, nInts, resolved, funs, session, codec, globals, attrs>>

\* ... and a del_proxy request naming any handle, valid or not.
TableRelease(handle) ==
    /\ procAlive
    /\ tableOps < MaxTableOps
    /\ tableOps' = tableOps + 1
    /\ IF HandleInRange(object_cache, handle)
       THEN LET r == DelProxy(object_cache, empty_cache_indexes, handle) IN
              /\ object_cache' = r.cache
              /\ empty_cache_indexes' = r.free
              /\ hist' = Last3(Append(hist, ReleaseEvent(handle, empty_cache_indexes)))
       ELSE UNCHANGED <<object_cache, empty_cache_indexes, hist>>
    /\ ledger' = Released(ledger, handle)
    /\ UNCHANGED <<masterVars, procAlive, crashed, reader, toRemote, toMaster, rpc, rmsg, nInts, resolved, funs, session, codec, globals, attrs>>

\* ... and a request that makes the remote resolve a handle, valid or not.
TableResolve(how, name, handle) ==
    /\ procAlive
    /\ tableOps < MaxTableOps
    /\ tableOps' = tableOps + 1
    /\ resolved' = Resolution(how, name, object_cache, handle)
    /\ procAlive' = (resolved'.outcome # "crash")
    /\ crashed' = (resolved'.outcome = "crash")
    /\ rpc' = IF resolved'.outcome = "crash" THEN "dead" ELSE rpc
    /\ UNCHANGED <<masterVars, reader, toRemote, toMaster, rmsg, object_cache,
                   empty_cache_indexes, hist, nInts, funs, session, codec, globals, attrs, ledger>>

TableNext ==
    \/ \E d \in Objs : TableAllocate(d)
    \/ \E h \in 0..Len(object_cache) : TableRelease(h)
    \/ \E k \in ResolveKinds, h \in 0..Len(object_cache) : TableResolve(k[1], k[2], h)

SpecTable == Init /\ [][TableNext]_vars

\* The main thread keeps running whatever operation it is in.
FairSpec == Spec /\ WF_vars(MasterStep)

\* ------------------------------------------------------------------ claims
SendMessageOps == {"get_global", "set_global", "del_proxy", "call"}

\* C1: once a send_message invocation has completed (it returned a reply, it
\* raised TransplantError for an 'error' reply, or a KeyboardInterrupt ended
\* it), the channel is Idle: as many replies have been read as requests were
\* sent - for every caller (get_global, set_global, del_proxy, call).
C1_IdleAfterSendMessage ==
    (/\ ~Running
     /\ last.op \in SendMessageOps
     /\ last.idleAtStart
     /\ last.outcome \in {"ok", "TransplantError", "KeyboardInterrupt"})
    => sent = recvd

\* C2: at most one request is outstanding at any time, and a request is
\* transmitted only while the channel is Idle (every earlier request has had
\* its reply read), whatever the interleaving of user operations and
\* finalizers.
C2_OneRequestOutstanding ==
    [][/\ sent - recvd \in {0, 1}
       /\ sent' # sent => (sent = recvd /\ sent' = sent + 1)]_vars

\* A finalizer runs inside an operation whose request is outstanding and
\* waits for the socket to become writable.
C2_Witness ==
    /\ Len(stack) = 2
    /\ stack[1].nsent = 1 /\ stack[1].reply = None
    /\ Top.op = "del_proxy" /\ Top.pc = "wo_poll"
    /\ sent - recvd = 1

\* C3: when a KeyboardInterrupt reached Matlab._call while its request was
\* outstanding, the handler re-raises it only after it has sent SIGINT and
\* then performed exactly one receive, in that order; the call does not
\* return the drained reply.
C3_InterruptDrainsThenReraises ==
    (/\ last.op = "call"
     /\ last.outstanding
     /\ last.outcome = "KeyboardInterrupt" /\ last.via = "reraise")
    => (/\ last.trace = <<"sigint", "recv">>
        /\ last.nsent = 1
        /\ last.reply = None
        /\ sigints >= 1 /\ recvd >= 1)

C3_Witness ==
    /\ last.op = "call"
    /\ last.outstanding
    /\ last.outcome = "KeyboardInterrupt" /\ last.via = "reraise"
    /\ sent = recvd

\* C4: if the child has exited without a reply while send_message waits in
\* _wait_socket (for POLLOUT or POLLIN), the wait ends: the next process.poll()
\* of the loop raises 'Process died unexpectedly'; the invocation never loops
\* forever.
WaitingOnDeadChild(d) ==
    /\ Len(stack) = d
    /\ stack[d].pc \in WaitPcs
    /\ ~procAlive
    /\ Len(toMaster) = 0

WaitEnded(d) ==
    \/ Len(stack) < d
    \/ Len(stack) >= d /\ stack[d].pc \notin SendMessagePcs

C4_DeadChildEndsWait ==
    /\ \A d \in 1..2 : WaitingOnDeadChild(d) ~> WaitEnded(d)
    /\ [][(/\ Running /\ Top.pc \in {"wo_check", "wi_check"}
           /\ ~procAlive
           /\ stack' # stack /\ nInts' = nInts /\ Len(stack') <= Len(stack))
          => (/\ Len(stack') = Len(stack) - 1
              /\ last'.outcome = "ProcessDied")]_vars

C4_Witness ==
    /\ Running /\ Top.pc = "wi_poll" /\ Top.nsent = 1
    /\ ~procAlive /\ Len(toMaster) = 0

\* C5: teardown is idempotent and never raises: exit() called again after a
\* completed teardown, or after the child has exited on its own (observed by
\* a poll or not), sends no request, raises nothing and leaves the socket
\* closed.
C5_TeardownIdempotent ==
    (/\ ~Running
     /\ last.op = "exit"
     /\ last.closedAtStart \/ last.deadAtStart
     /\ nInts = 0)
    => (last.outcome = "ok" /\ last.nsent = 0 /\ sockClosed)

\* C6: teardown of a live idle session sends exactly one 'die', waits for the
\* child to exit and closes the socket, for every interleaving of the remote's
\* acknowledgement, its exit and the master's polling: it never fails with the
\* process-died error.
C6_TeardownLiveIdle ==
    (/\ ~Running
     /\ last.op = "exit"
     /\ ~last.deadAtStart /\ ~last.closedAtStart /\ last.idleAtStart
     /\ ~crashed
     /\ nInts = 0
     /\ \A p \in Proxies : proxyState[p] = "unborn")
    => (/\ last.outcome = "ok"
        /\ last.nsent = 1
        /\ ~procAlive /\ returncode # None
        /\ sockClosed)

\* C7: after teardown has completed (the socket is closed) nothing is
\* transmitted any more: a later get/set/call fails without sending, and a
\* proxy finalizer skips its release request without an error.
C7_NoSendAfterTeardown ==
    [][sockClosed =>
         /\ sent' = sent
         /\ toRemote' = toRemote
         /\ completed' # completed =>
              /\ last'.nsent = 0
              /\ last'.op \in {"get_global", "set_global", "call"}
                   => last'.outcome \notin {"ok", "skipped"}
              /\ last'.op = "del_proxy"
                   => last'.outcome \in {"skipped", "KeyboardInterrupt"}]_vars

C7_Witness ==
    /\ sockClosed
    /\ last.op = "del_proxy" /\ last.closedAtStart
    /\ last.outcome = "skipped"

\* C8: finalizing a proxy never raises, in any session state (open and idle,
\* closed, child dead with the socket still open), and sends nothing when the
\* socket is closed.
C8_FinalizerNeverRaises ==
    (/\ last.op = "del_proxy"
     /\ ~last.nested
     /\ last.idleAtStart
     /\ nInts = 0)
    => (/\ last.outcome \in {"ok", "skipped"}
        /\ last.closedAtStart => last.nsent = 0)

\* C9 as stated: every proxy sends at most one del_proxy, and exactly one if
\* it is finalized while the socket is open.
C9_OneDelPerProxy ==
    /\ \A p \in Proxies : delSent[p] <= 1
    /\ (last.op = "del_proxy" /\ ~last.closedAtStart /\ nInts = 0) =>
         delSent[last.p] = 1

\* C9, amended: every proxy sends at most one del_proxy; a proxy finalized
\* while the socket is open sends exactly one unless its send_message is ended
\* before the transmission by the child having exited, by the socket refusing
\* the send or by a KeyboardInterrupt; a proxy finalized while the socket is
\* closed sends none; and only a finalizer transmits a del_proxy.
C9_OneDelPerProxyAmended ==
    [][/\ \A p \in Proxies : delSent[p] <= 1
       /\ (last.op = "del_proxy" /\ ~last.closedAtStart) =>
            /\ delSent[last.p] = last.nsent
            /\ last.nsent = 0 =>
                 last.outcome \in {"ProcessDied", "ZMQError", "KeyboardInterrupt"}
       /\ (last.op = "del_proxy" /\ last.closedAtStart) => delSent[last.p] = 0
       /\ \A p \in Proxies : delSent'[p] # delSent[p] =>
            /\ Running /\ Top.op = "del_proxy" /\ Top.p = p
            /\ Len(toRemote') = Len(toRemote) + 1
            /\ toRemote'[Len(toRemote')] =
                 [type |-> "del_proxy", handle |-> proxyHandle[p],
                  name |-> -1, args |-> <<>>]
       /\ (Len(toRemote') > Len(toRemote)
           /\ toRemote'[Len(toRemote')].type = "del_proxy") =>
            Top.op = "del_proxy" /\ delSent'[Top.p] = delSent[Top.p] + 1]_vars

C9_Witness ==
    /\ last.op = "del_proxy" /\ ~last.closedAtStart
    /\ last.outcome = "ok"
    /\ delSent[last.p] = 1

\* C10 as stated: from any reachable table state, allocate, release that
\* handle, allocate again returns the first index, and that index then
\* resolves to the second object.
AllocReleaseAlloc ==
    /\ Len(hist) = 3
    /\ hist[1].op = "alloc"
    /\ hist[2].op = "release" /\ hist[2].idx = hist[1].idx
    /\ hist[3].op = "alloc"

NoDuplicates(free) ==
    \A i, j \in 1..Len(free) : i # j => free[i] # free[j]

C11_DoubleReleaseSafe ==
    /\ NoDuplicates(empty_cache_indexes)
    /\ (/\ Len(hist) >= 2
        /\ hist[Len(hist)].op = "alloc"
        /\ hist[Len(hist) - 1].op = "alloc")
       => hist[Len(hist)].idx # hist[Len(hist) - 1].idx

\* C13: each live remote object is held by at most one slot of the table.
C13_OneHandlePerObject ==
    \A i, j \in 1..Len(object_cache) :
        (i # j /\ object_cache[i] # Tombstone) => object_cache[i] # object_cache[j]

\* C12: resolving a handle that was never allocated or has been released is
\* answered with an error reply: the resolution never ends the process without
\* a reply and never yields the tombstone as if the handle were valid.
C12_InvalidHandleFails ==
    /\ resolved.outcome # "crash"
    /\ resolved.outcome = "value" => resolved.obj # Tombstone

\* C15: a proxy or function reference sent back to the remote carries the
\* handle the master received for it, and the remote resolves that handle to
\* the object or function the handle was allocated for, as long as the handle
\* has not been released since.
LiveAlloc(h, k) ==
    /\ k \in 1..Len(hist)
    /\ hist[k].op = "alloc" /\ hist[k].idx = h
    /\ \A j \in (k + 1)..Len(hist) : hist[j].idx # h

ResolvesAsAllocated(h, res) ==
    /\ res.handle = h
    /\ \A k \in 1..Len(hist) :
         LiveAlloc(h, k) => (res.outcome = "value" /\ res.obj = hist[k].obj)

ArgsFlattened(m, f) ==
    /\ m.type = "call"
    /\ m.name = f.fun
    /\ Len(m.args) = Len(f.pos) + 2 * Len(f.kw)
    /\ \A i \in 1..Len(f.pos) : m.args[i] = f.pos[i]
    /\ \A j \in 1..Len(f.kw) :
         /\ m.args[Len(f.pos) + 2 * j - 1] = f.kw[j][1]
         /\ m.args[Len(f.pos) + 2 * j] = f.kw[j][2]

DecodeSendsNothing ==
    funs' # funs => (sent' = sent /\ toRemote' = toRemote /\ Len(stack') < Len(stack))

InvocationRequest ==
    (sent' # sent /\ Top.fun >= 0) =>
        /\ toRemote' = Append(toRemote, toRemote'[Len(toRemote')])
        /\ ArgsFlattened(toRemote'[Len(toRemote')], Top)

C20_FunctionLateBound ==
    [][/\ DecodeSendsNothing
       /\ InvocationRequest
       /\ (completed' # completed /\ last'.fun >= 0 /\ nInts' = 0) =>
            last'.nsent = 1]_vars

\* C20, amended: decoding a function reference transmits nothing; every
\* invocation of the decoded callable transmits at most one 'call' request,
\* and exactly one unless its send_message ends before the transmission (the
\* child has exited, the socket refuses, or a KeyboardInterrupt arrives); the
\* request's name is the handle and its args are the positional arguments
\* followed by the keyword arguments as key, value pairs.
C20_FunctionLateBoundAmended ==
    [][/\ DecodeSendsNothing
       /\ InvocationRequest
       /\ (completed' # completed /\ last'.fun >= 0) =>
            /\ last'.nsent <= 1
            /\ last'.nsent = 0 =>
                 last'.outcome \in {"ProcessDied", "ZMQError", "KeyboardInterrupt"}]_vars

C20_Witness ==
    /\ last.fun >= 0 /\ last.fun \in funs
    /\ last.outcome = "ok" /\ last.nsent = 1
    /\ last.pos # <<>> /\ last.kw # <<>>

\* C18: when the child process terminated abnormally while a call was
\* outstanding (its request sent, no reply read), the error raised to the
\* caller is a TransplantError.
C18_CrashRaisesTransplantError ==
    (/\ last.op = "call"
     /\ last.nsent = 1 /\ last.reply = None
     /\ crashed
     /\ last.trace = <<>>
     /\ last.outcome \notin {"ok", "none", "KeyboardInterrupt"})
    => ExceptionClass(last.outcome) = "TransplantError"

\* C19: once the child process has died it stays dead, and every send_message
\* that starts afterwards transmits nothing and does not succeed: unless a
\* KeyboardInterrupt cuts it short, it fails with the process-died error.
C19_DeadSessionStaysDead ==
    [][/\ ~procAlive => ~procAlive'
       /\ (sent' # sent) => ~Top.deadAtStart
       /\ (completed' # completed /\ last'.deadAtStart /\ last'.op \in SendMessageOps) =>
            /\ last'.nsent = 0
            /\ last'.outcome # "ok"
            /\ (last'.trace = <<>> /\ last'.outcome \notin {"KeyboardInterrupt", "skipped"})
                 => last'.outcome = "ProcessDied"
       /\ (completed' # completed /\ last'.deadAtStart /\ last'.op = "exit") =>
            /\ last'.nsent = 0
            /\ last'.outcome \in {"ok", "ProcessDied", "KeyboardInterrupt"}]_vars

\* After an exchange that succeeded the child died, and a later request failed
\* with the process-died error without transmitting.
C19_Witness ==
    /\ ~procAlive /\ ~sockClosed
    /\ recvd >= 1
    /\ last.op \in SendMessageOps /\ last.deadAtStart
    /\ last.outcome = "ProcessDied" /\ last.nsent = 0

\* C17: the constructor returns a session only after the handshake has
\* succeeded: both exchanges of self.eval('0;') were completed, the second
\* being the no-op call; until then only the constructor transmits; and if
\* the child is dead before it has produced the handshake's replies, the
\* constructor does not return a session (it raises).
C17_StartupHandshake ==
    [][/\ (session # "ready" /\ session' = "ready") =>
            /\ last'.ctor = 2 /\ last'.op = "call"
            /\ last'.nsent = 1 /\ last'.reply \in {"ack", "value"}
            /\ sent' = 2 /\ recvd' = 2
       /\ (sent' # sent /\ session # "ready") =>
            (Running /\ (Top.ctor > 0 \/ Top.op = "del_proxy"))
       /\ (sent' # sent /\ Top.ctor = 0 /\ Top.op # "del_proxy") =>
            (session = "ready" /\ recvd >= 2)
       /\ (session = "constructing" /\ ~procAlive /\ recvd + Len(toMaster) < 2) =>
            session' # "ready"
       /\ (session = "constructing" /\ session' # "constructing") =>
            \/ session' = "ready"
            \/ session' = "failed" /\ last'.outcome \notin {"ok", "skipped"}]_vars

\* The constructor has returned, and a caller's request is on its way.
C17_Witness ==
    /\ session = "ready"
    /\ Running /\ Top.ctor = 0 /\ Top.nsent = 1
    /\ sent = 3 /\ recvd = 2

\* ------------------------------------------------- the codec on its own
\* The values offered to _encode_values: the leaves, lists of up to MaxLen
\* leaves, one-key maps of a leaf, and one more level of list or map around
\* each of those.
Arrays ==
    { ArrayV("uint8", <<2>>, <<1, 255>>),
      ArrayV("int16", <<1, 2>>, <<-2, 300>>),
      ArrayV("int32", <<1>>, <<-70000>>),
      ArrayV("uint8", <<0>>, <<>>) }

Sparses ==
    { SparseV(<<2, 2>>, ArrayV("int32", <<1>>, <<0>>), ArrayV("int32", <<1>>, <<1>>),
              ArrayV("int16", <<1>>, <<5>>)),
      SparseV(<<2, 2>>, ArrayV("int32", <<0>>, <<>>), ArrayV("int32", <<0>>, <<>>),
              ArrayV("int16", <<0>>, <<>>)) }

Leaves ==
    { NullV, BoolV(TRUE), NumV(0), StrV("a"), StrV("__object__"),
      ProxyV(NumV(3)), FuncV(NumV(1)) } \cup Arrays \cup Sparses

SeqsUpTo(S, n) == UNION { [1..m -> S] : m \in 0..n }

Level1 ==
    { ListV(items) : items \in SeqsUpTo(Leaves, MaxLen) }
    \cup { MapV(<<PairV("x", v)>>) : v \in Leaves }

Level2 ==
    { ListV(<<v>>) : v \in Level1 } \cup { MapV(<<PairV("x", v)>>) : v \in Level1 }

Values == Leaves \cup Level1 \cup Level2

\* The error replies offered to send_message.  The master's file system
\* holds /m/f.m with two lines and /py/f.py; /m/gone.m is not there.
LocalLines(file) ==
    CASE file = "/m/f.m" -> 2 [] file = "/py/f.py" -> 2 [] OTHER -> -1

EndsWithM(file) == file \in {"/m/f.m", "/m/gone.m"}

Frames ==
    { [file |-> f, line |-> l, name |-> "fn"] :
        f \in {FileNone, "/m/f.m", "/m/gone.m", "/py/f.py"}, l \in {1, 3} }

Stacks ==
    { [isDict |-> TRUE, dict |-> f, list |-> <<>>] : f \in Frames }
    \cup { [isDict |-> FALSE, dict |-> NoFrame, list |-> l] : l \in SeqsUpTo(Frames, MaxLen) }

ErrorReplies ==
    { [identifier |-> "MATLAB:UndefinedFunction", message |-> "boom", stack |-> st] :
        st \in Stacks }

\* send_message, the branch response['type'] == 'error': a bare dict is
\* wrapped in a list, the frames are walked in reverse, and a frame whose
\* file is a local .m file has its source line read with
\* readlines()[int(line) - 1], which raises IndexError outside the file.
NormalizeStack(st) == IF st.isDict THEN <<st.dict>> ELSE st.list

\* reversed(response['stack'])
Reversed_Same(sq) == sq

Reversed(sq) == [i \in 1..Len(sq) |-> sq[Len(sq) + 1 - i]]

ReadsSource(frame) ==
    frame.file # FileNone /\ LocalLines(frame.file) >= 0 /\ EndsWithM(frame.file)

SourceIndexOk(frame) ==
    LET n == LocalLines(frame.file)
    IN (frame.line - 1) \in (0 - n)..(n - 1)

\* One frame of the trace text: '  File "{file}", line {line}, in {name}',
\* followed by the source line read from the local file, if any (0: none).
TraceLine(frame) ==
    [file |-> frame.file, line |-> frame.line, name |-> frame.name,
     source |-> IF ReadsSource(frame)
                THEN ((frame.line - 1) % LocalLines(frame.file)) + 1
                ELSE 0]

RaiseError(resp) ==
    LET frames == NormalizeStack(resp.stack)
    IN IF \E i \in 1..Len(frames) : ReadsSource(frames[i]) /\ ~SourceIndexOk(frames[i])
       THEN [NoRaise EXCEPT !.class = "IndexError"]
       ELSE [class |-> "TransplantError", stack |-> frames,
             identifier |-> resp.identifier, original_message |-> resp.message,
             trace |-> [i \in 1..Len(frames) |-> TraceLine(Reversed(frames)[i])]]

\* The replies send_message may read: a dict with or without a 'type' and a
\* 'value' field.  Well-formed ones, and ones of unexpected shape: an unknown
\* type, no type, a tagged list with the wrong number of elements.
CallerOps == {"set_global", "get_global", "call", "del_proxy"}

ShortTagged ==
    { ListV(<<StrV("__object__")>>),
      ListV(<<StrV("__object__"), NumV(0), NumV(1)>>),
      ListV(<<StrV("__function__")>>),
      ListV(<<StrV("__matrix__"), StrV("uint8"), ShapeList(<<1>>)>>),
      ListV(<<StrV("__sparse__"), ShapeList(<<2, 2>>)>>) }

ReplyShapes ==
    { [hasType |-> TRUE, type |-> "ack", hasValue |-> FALSE, value |-> NullV],
      [hasType |-> TRUE, type |-> "bogus", hasValue |-> FALSE, value |-> NullV],
      [hasType |-> FALSE, type |-> "", hasValue |-> FALSE, value |-> NullV] }
    \cup { [hasType |-> ht, type |-> IF ht THEN t ELSE "", hasValue |-> TRUE, value |-> v] :
             ht \in BOOLEAN, t \in {"value", "bogus"},
             v \in {NumV(0), ListV(<<StrV("__object__"), NumV(0)>>),
                    ListV(<<NumV(0), StrV("a")>>)} \cup ShortTagged }

\* send_message after the receive: decode the reply, test response['type']
\* (a KeyError without the field), hand the reply to the caller; then
\* _set_global and _del_proxy drop it, _get_global returns response['value']
\* (a KeyError without the field), _call returns response['value'] if the type
\* is 'value' and None otherwise.
Raises(class) == [outcome |-> "raise", class |-> class, value |-> NullV]
Returns(v) == [outcome |-> "return", class |-> "none", value |-> v]

CallerResult(op, reply) ==
    IF ~reply.hasType THEN Raises("KeyError")
    ELSE IF reply.type = "error" THEN Raises("TransplantError")
    ELSE CASE op \in {"set_global", "del_proxy"} -> Returns(NullV)
           [] op = "get_global" ->
                 IF reply.hasValue THEN Returns(DecodeValues(reply.value))
                                   ELSE Raises("KeyError")
           [] OTHER ->
                 IF reply.type # "value" THEN Returns(NullV)
                 ELSE IF reply.hasValue THEN Returns(DecodeValues(reply.value))
                 ELSE Raises("KeyError")

\* Two references arriving from the remote, each ["__object__", handle]; the
\* second proxy is either decoded from the second reference or is the first
\* proxy again (alias).
ReferencePairs ==
    { ListV(<<ListV(<<StrV("__object__"), NumV(h1)>>),
              ListV(<<StrV("__object__"), NumV(h2)>>)>>) : h1, h2 \in 0..MaxProxies }

InitCodec ==
    /\ \/ \E fmt \in {"json", "msgpack"}, v \in Values :
            codec = [NoCodec EXCEPT !.stage = "value", !.fmt = fmt, !.v = v]
       \/ \E w \in ReferencePairs, al \in BOOLEAN :
            codec = [NoCodec EXCEPT !.stage = "references", !.wire = w, !.alias = al]
       \/ \E op \in CallerOps, r \in ReplyShapes :
            codec = [NoCodec EXCEPT !.stage = "reply_read", !.op = op, !.reply = r]
       \/ \E fmt \in {"json", "msgpack"}, r \in ErrorReplies :
            codec = [NoCodec EXCEPT !.stage = "reply", !.fmt = fmt, !.resp = r]
    /\ stack = <<>>
    /\ last = NoLast
    /\ completed = 0
    /\ sockClosed = FALSE
    /\ returncode = None
    /\ procAlive = TRUE
    /\ crashed = FALSE
    /\ reader = "running"
    /\ receiving_reply = FALSE
    /\ toRemote = <<>>
    /\ toMaster = <<>>
    /\ rpc = "recv"
    /\ rmsg = NoMsg
    /\ object_cache = <<>>
    /\ empty_cache_indexes = <<>>
    /\ hist = <<>>
    /\ tableOps = 0
    /\ proxyState = [p \in Proxies |-> "unborn"]
    /\ proxyHandle = [p \in Proxies |-> 0]
    /\ delSent = [p \in Proxies |-> 0]
    /\ sent = 0
    /\ recvd = 0
    /\ sigints = 0
    /\ nOps = 0
    /\ nInts = 0
    /\ resolved = NoResolution
    /\ funs = {}
    /\ session = "ready"
    /\ globals = InitGlobals
    /\ attrs = InitAttrs
    /\ ledger = NoLedger

CodecEncode ==
    /\ codec.stage = "value"
    /\ codec' = [codec EXCEPT !.stage = "encoded", !.wire = EncodeValues(codec.fmt, codec.v)]
    /\ UNCHANGED <<stack, last, completed, sockClosed, returncode, procAlive, crashed, reader, receiving_reply, toRemote, toMaster, rpc, rmsg, object_cache, empty_cache_indexes, hist, tableOps, proxyState, proxyHandle, delSent, sent, recvd, sigints, nOps, nInts, resolved, funs, session, globals, attrs, ledger>>

CodecDecode ==
    /\ codec.stage = "encoded"
    /\ codec' = [codec EXCEPT !.stage = "decoded", !.out = DecodeValues(codec.wire)]
    /\ UNCHANGED <<stack, last, completed, sockClosed, returncode, procAlive, crashed, reader, receiving_reply, toRemote, toMaster, rpc, rmsg, object_cache, empty_cache_indexes, hist, tableOps, proxyState, proxyHandle, delSent, sent, recvd, sigints, nOps, nInts, resolved, funs, session, globals, attrs, ledger>>

CodecRaise ==
    /\ codec.stage = "reply"
    /\ codec' = [codec EXCEPT !.stage = "raised", !.raised = RaiseError(codec.resp)]
    /\ UNCHANGED <<stack, last, completed, sockClosed, returncode, procAlive, crashed, reader, receiving_reply, toRemote, toMaster, rpc, rmsg, object_cache, empty_cache_indexes, hist, tableOps, proxyState, proxyHandle, delSent, sent, recvd, sigints, nOps, nInts, resolved, funs, session, globals, attrs, ledger>>

\* MatlabProxyObject(process, handle): a new local object around the handle.
NewProxy(id, handle) == [id |-> id, handle |-> handle]

\* a == b for two MatlabProxyObjects: the class defines no __eq__, so the
\* comparison is object.__eq__, the identity of the two local objects.
ProxyEq(a, b) == a.id = b.id

\* _decode_values on the two references: _decode_proxy makes a proxy for each.
CodecDecodeProxies ==
    /\ codec.stage = "references"
    /\ LET out == DecodeValues(codec.wire)
           a == NewProxy(1, out.items[1].items[1].n)
           b == IF codec.alias THEN a ELSE NewProxy(2, out.items[2].items[1].n)
       IN codec' = [codec EXCEPT !.stage = "proxies", !.out = out, !.pa = a, !.pb = b]
    /\ UNCHANGED <<stack, last, completed, sockClosed, returncode, procAlive, crashed, reader, receiving_reply, toRemote, toMaster, rpc, rmsg, object_cache, empty_cache_indexes, hist, tableOps, proxyState, proxyHandle, delSent, sent, recvd, sigints, nOps, nInts, resolved, funs, session, globals, attrs, ledger>>

CodecCompare ==
    /\ codec.stage = "proxies"
    /\ codec' = [codec EXCEPT !.stage = "compared", !.eq = ProxyEq(codec.pa, codec.pb)]
    /\ UNCHANGED <<stack, last, completed, sockClosed, returncode, procAlive, crashed, reader, receiving_reply, toRemote, toMaster, rpc, rmsg, object_cache, empty_cache_indexes, hist, tableOps, proxyState, proxyHandle, delSent, sent, recvd, sigints, nOps, nInts, resolved, funs, session, globals, attrs, ledger>>

CodecAccept ==
    /\ codec.stage = "reply_read"
    /\ codec' = [codec EXCEPT !.stage = "accepted",
                              !.result = CallerResult(codec.op, codec.reply)]
    /\ UNCHANGED <<stack, last, completed, sockClosed, returncode, procAlive, crashed, reader, receiving_reply, toRemote, toMaster, rpc, rmsg, object_cache, empty_cache_indexes, hist, tableOps, proxyState, proxyHandle, delSent, sent, recvd, sigints, nOps, nInts, resolved, funs, session, globals, attrs, ledger>>

NextCodec ==
    \/ CodecEncode \/ CodecDecode \/ CodecRaise
    \/ CodecDecodeProxies \/ CodecCompare \/ CodecAccept

SpecCodec == InitCodec /\ [][NextCodec]_vars

\* C14: whenever _decode_values has been applied to the _encode_values of a
\* supported value, under json or msgpack, the result equals the value.
C14_RoundTrip ==
    codec.stage = "decoded" => codec.out = codec.v

\* C16: whenever send_message has handled a reply tagged 'error', it has
\* raised a TransplantError with the reply's identifier, the reply's message
\* as original_message, and the frames as a sequence in their order (a bare
\* frame wrapped into a one-element sequence).
C16_ErrorReplyRaises ==
    codec.stage = "raised" =>
        /\ codec.raised.class = "TransplantError"
        /\ codec.raised.identifier = codec.resp.identifier
        /\ codec.raised.original_message = codec.resp.message
        /\ codec.raised.stack = IF codec.resp.stack.isDict
                                THEN <<codec.resp.stack.dict>>
                                ELSE codec.resp.stack.list

\* C26 as stated: when handles have been released, the next allocation
\* returns the smallest released index, whatever the order of the releases.
AllocationFromFreeList ==
    /\ Len(empty_cache_indexes') < Len(empty_cache_indexes)
    /\ Len(hist') > 0 /\ hist'[Len(hist')].op = "alloc"

Newline == 65

RemoteEncodeMatrix(a) ==
    ListV(<<StrV("__matrix__"), StrV(a.s), ShapeList(a.shape),
            MkV("str", "", 0, <<>>,
                IF a.raw = <<>> THEN <<>>
                ELSE B64Encode(ToBytes(a.s, a.raw)) \o <<Newline>>, <<>>)>>)

\* The isinstance chain of encode_values.
RemoteKind_NoMatrix(v) ==
    CASE v.k \in {"str", "bytes", "num", "bool", "null"} -> "plain"
      [] v.k = "pyfunc" -> "function"
      [] v.k \in {"map", "pair", "list"} -> "container"
      [] OTHER -> "proxy"

RemoteKind(v) ==
    CASE v.k \in {"str", "bytes", "num", "bool", "null"} -> "plain"
      [] v.k = "array" -> "matrix"
      [] v.k = "pyfunc" -> "function"
      [] v.k \in {"map", "pair", "list"} -> "container"
      [] OTHER -> "proxy"

\* encode_values over the table st = [cache, free, hist]; the result carries
\* the encoded value and the table after the allocations it made, in order.
Allocated(st, tag, obj) ==
    LET r == EncodeProxy(st.cache, st.free, obj)
    IN [wire |-> ListV(<<StrV(tag), NumV(r.idx)>>),
        cache |-> r.cache, free |-> r.free,
        hist |-> Last3(Append(st.hist, AllocEvent(r, obj, st.free)))]

RECURSIVE RemoteEncodeValues(_, _)
RECURSIVE RemoteEncodeItems(_, _)
RemoteEncodeItems(items, st) ==
    IF items = <<>> THEN [st EXCEPT !.wire = <<>>]
    ELSE LET h == RemoteEncodeValues(Head(items), st)
             t == RemoteEncodeItems(Tail(items), h)
         IN [t EXCEPT !.wire = <<h.wire>> \o t.wire]

RemoteEncodeValues(v, st) ==
    CASE RemoteKind(v) = "plain" -> [st EXCEPT !.wire = v]
      [] RemoteKind(v) = "matrix" -> [st EXCEPT !.wire = RemoteEncodeMatrix(v)]
      [] RemoteKind(v) = "function" -> Allocated(st, "__function__", v.n)
      [] RemoteKind(v) = "container" ->
            LET r == RemoteEncodeItems(v.items, st)
            IN [r EXCEPT !.wire = [v EXCEPT !.items = r.wire]]
      [] OTHER -> Allocated(st, "__object__", v.n)

\* The values the remote is asked to send.
RemoteValues ==
    { NullV, BoolV(TRUE), NumV(0), StrV("a"),
      ArrayV("int16", <<1, 2>>, <<-2, 300>>),
      ListV(<<NumV(0), ArrayV("uint8", <<0>>, <<>>)>>),
      MapV(<<PairV("x", ListV(<<StrV("a"), NullV>>))>>),
      PyFuncV(1), PyObjV(2),
      ListV(<<PyFuncV(1), PyObjV(1)>>),
      MapV(<<PairV("x", PyObjV(2))>>),
      ListV(<<ListV(<<BoolV(TRUE)>>), PyFuncV(2)>>) }

\* send_value(value): self.encode_values(value) run on the table as it is.
TableEncodeValues(v) ==
    /\ procAlive
    /\ codec.stage = "idle"
    /\ LET r == RemoteEncodeValues(v, [wire |-> NullV, cache |-> object_cache,
                                       free |-> empty_cache_indexes, hist |-> hist])
       IN /\ object_cache' = r.cache
          /\ empty_cache_indexes' = r.free
          /\ hist' = r.hist
          /\ codec' = [codec EXCEPT !.stage = "remote_encoded", !.v = v, !.wire = r.wire]
    /\ UNCHANGED <<masterVars, procAlive, crashed, reader, toRemote, toMaster, rpc, rmsg,
                   tableOps, nInts, resolved, funs, session, globals, attrs, ledger>>

\* The remote table under allocations and releases, then one value encoded.
NextEncode ==
    \/ codec.stage = "idle" /\ \E d \in Objs : TableAllocate(d)
    \/ codec.stage = "idle" /\ \E h \in 0..Len(object_cache) : TableRelease(h)
    \/ \E v \in RemoteValues : TableEncodeValues(v)

SpecEncode == Init /\ [][NextEncode]_vars

\* C29: encoding a value made only of null, booleans, numbers, strings, dense
\* arrays and lists/maps of these leaves the handle table and the free list
\* unchanged; otherwise exactly one handle is allocated for each embedded
\* function or other object, and no more.
RECURSIVE NonReducible(_)
RECURSIVE SumOver(_)
SumOver(items) ==
    IF items = <<>> THEN 0 ELSE NonReducible(Head(items)) + SumOver(Tail(items))

NonReducible(v) ==
    IF v.k \in {"pyfunc", "pyobj"} THEN 1 ELSE SumOver(v.items)

RECURSIVE References(_)
RECURSIVE ReferencesIn(_)
ReferencesIn(items) ==
    IF items = <<>> THEN 0 ELSE References(Head(items)) + ReferencesIn(Tail(items))

References(w) ==
    IF IsTagged(w, "__object__", 2) \/ IsTagged(w, "__function__", 2) THEN 1
    ELSE ReferencesIn(w.items)

HandlesTaken ==
    (Len(object_cache') - Len(object_cache))
    + (Len(empty_cache_indexes) - Len(empty_cache_indexes'))

ReceivedFrames ==
    IF codec.resp.stack.isDict THEN <<codec.resp.stack.dict>> ELSE codec.resp.stack.list

Describes(line, frame) ==
    line.file = frame.file /\ line.line = frame.line /\ line.name = frame.name

TraceComposed == codec.stage = "raised" /\ codec.raised.class = "TransplantError"

C25_TraceInReceivedOrder ==
    TraceComposed =>
        /\ Len(codec.raised.trace) = Len(ReceivedFrames)
        /\ \A i \in 1..Len(ReceivedFrames) :
              Describes(codec.raised.trace[i], ReceivedFrames[i])

\* C25, amended: the trace text lists the frames in the reverse of the order
\* received: with n frames received, the i-th rendered frame line describes
\* the (n + 1 - i)-th received frame, so the first received frame comes last.
C25_TraceInReverseOrder ==
    TraceComposed =>
        /\ Len(codec.raised.trace) = Len(ReceivedFrames)
        /\ \A i \in 1..Len(ReceivedFrames) :
              Describes(codec.raised.trace[i],
                        ReceivedFrames[Len(ReceivedFrames) + 1 - i])

\* A trace has been composed for a stack of two different frames.
C25_Witness ==
    /\ TraceComposed
    /\ Len(ReceivedFrames) = 2
    /\ ReceivedFrames[1] # ReceivedFrames[2]
    /\ Describes(codec.raised.trace[2], ReceivedFrames[1])

\* C24: two proxy objects compare equal exactly when their handles are equal,
\* whether or not they are the same local object.
C24_ProxyEqualityByHandle ==
    codec.stage = "compared" =>
        (codec.eq <=> codec.pa.handle = codec.pb.handle)

\* C23: a reply of unexpected shape (an unknown reply type, no type field, a
\* tagged list with the wrong number of elements) makes the call fail with
\* an error; it is never returned, turned into a generic list or answered
\* with None as if it were valid.
TagLength(tag) ==
    CASE tag = "__matrix__" -> 4 [] tag = "__sparse__" -> 5
      [] tag \in {"__object__", "__function__"} -> 2 [] OTHER -> 0

RECURSIVE HasShortTagged(_)
HasShortTagged(w) ==
    \/ /\ w.k = "list" /\ Len(w.items) > 0
       /\ w.items[1].k = "str" /\ TagLength(w.items[1].s) > 0
       /\ Len(w.items) # TagLength(w.items[1].s)
    \/ \E i \in 1..Len(w.items) : HasShortTagged(w.items[i])

UnexpectedShape(reply) ==
    \/ ~reply.hasType
    \/ reply.type \notin ResponseTypes
    \/ reply.hasValue /\ HasShortTagged(reply.value)

C23_UnexpectedReplyFails ==
    (codec.stage = "accepted" /\ UnexpectedShape(codec.reply)) =>
        codec.result.outcome = "raise"

\* ------------------------------------------ the remote message loop alone
\* TransplantClient.message_loop serving an arbitrary REQ client.  A request
\* is [type, handle, name, args]: handle is the handle a *_proxy request
\* names, or the handle of a reference embedded in the value or arguments of
\* a 'set' or 'call' request (-1: none).
LoopKnownTypes == {"die", "set", "get", "set_proxy", "get_proxy", "del_proxy", "call"}
LoopTypes == LoopKnownTypes \cup {"set_global", "get_global", "bogus"}

LoopRequests ==
    { [type |-> t, handle |-> h, name |-> -1, args |-> <<>>] :
        t \in LoopTypes, h \in -1..MaxObjs }

LoopEmbeds(msg) == msg.type \in {"set", "call"} /\ msg.handle >= 0

\* Requests read by the loop so far, and replies it has sent.
LoopReceived == sent - Len(toRemote)
LoopReplied == recvd + Len(toMaster)

\* The client: a REQ socket sends only after the reply to its last request.
LoopClientSend(msg) ==
    /\ nOps < MaxOps
    /\ sent = recvd
    /\ nOps' = nOps + 1
    /\ sent' = sent + 1
    /\ toRemote' = Append(toRemote, msg)
    /\ UNCHANGED <<stack, last, completed, sockClosed, returncode, receiving_reply,
                   proxyState, proxyHandle, delSent, recvd, sigints, tableOps,
                   procAlive, crashed, reader, toMaster, remoteVars, nInts, resolved,
                   funs, session, codec, globals, attrs, ledger>>

LoopClientRecv ==
    /\ Len(toMaster) > 0
    /\ toMaster' = Tail(toMaster)
    /\ recvd' = recvd + 1
    /\ UNCHANGED <<stack, last, completed, sockClosed, returncode, receiving_reply,
                   proxyState, proxyHandle, delSent, sent, sigints, nOps,
                   procAlive, crashed, reader, toRemote, remoteVars, tableOps, nInts,
                   resolved, funs, session, codec, globals, attrs, ledger>>

\* msg = self.decode_values(self.socket.recv_json()), outside the try block:
\* a REP socket that still owes a reply refuses to receive (ZMQError), and a
\* reference to a handle outside the table raises IndexError; either ends the
\* process.
LoopRecv ==
    /\ procAlive /\ rpc = "recv"
    /\ IF LoopReplied < LoopReceived
       THEN /\ procAlive' = FALSE /\ crashed' = TRUE /\ rpc' = "dead"
            /\ UNCHANGED <<toRemote, rmsg, resolved>>
       ELSE /\ Len(toRemote) > 0
            /\ toRemote' = Tail(toRemote)
            /\ rmsg' = Head(toRemote)
            /\ resolved' = IF LoopEmbeds(Head(toRemote))
                           THEN Resolution("embedded", "-", object_cache, Head(toRemote).handle)
                           ELSE resolved
            /\ IF LoopEmbeds(Head(toRemote)) /\ resolved'.outcome = "crash"
               THEN procAlive' = FALSE /\ crashed' = TRUE /\ rpc' = "dead"
               ELSE rpc' = "handle" /\ UNCHANGED <<procAlive, crashed>>
    /\ UNCHANGED <<masterVars, reader, toMaster, object_cache,
                   empty_cache_indexes, hist, tableOps, nInts, funs, session, codec, globals, attrs, ledger>>

\* The object a *_proxy request names: object_cache[msg['handle']].
LoopTarget ==
    Resolution(rmsg.type, "x", object_cache, rmsg.handle)

LoopTargetOk ==
    rmsg.type \in {"set_proxy", "get_proxy"} => LoopTarget.outcome = "value"

\* set, set_proxy, call returning None: send_ack()
LoopAck ==
    /\ procAlive /\ rpc = "handle" /\ rmsg.type \in {"set", "set_proxy", "call"}
    /\ LoopTargetOk
    /\ toMaster' = Append(toMaster, Reply("ack", -1))
    /\ rpc' = "recv"
    /\ UNCHANGED <<masterVars, procAlive, crashed, reader, toRemote, rmsg, object_cache,
                   empty_cache_indexes, hist, tableOps, nInts, resolved, funs, session, codec, globals, attrs, ledger>>

\* get, get_proxy, call returning a value: send_value(value), which encodes it.
LoopValue(v) ==
    /\ procAlive /\ rpc = "handle" /\ rmsg.type \in {"get", "get_proxy", "call"}
    /\ LoopTargetOk
    /\ LET r == RemoteEncodeValues(v, [wire |-> NullV, cache |-> object_cache,
                                       free |-> empty_cache_indexes, hist |-> hist])
       IN /\ object_cache' = r.cache
          /\ empty_cache_indexes' = r.free
          /\ hist' = r.hist
    /\ toMaster' = Append(toMaster, Reply("value", -1))
    /\ rpc' = "recv"
    /\ UNCHANGED <<masterVars, procAlive, crashed, reader, toRemote, rmsg,
                   tableOps, nInts, resolved, funs, session, codec, globals, attrs, ledger>>

\* except Exception as err: self.send_error(err) - an undefined name, a
\* handle outside the table, an attribute the object lacks, a call that raises.
LoopError ==
    /\ procAlive /\ rpc = "handle"
    /\ rmsg.type \in {"set", "get", "set_proxy", "get_proxy", "call"}
    /\ toMaster' = Append(toMaster, Reply("error", -1))
    /\ rpc' = "recv"
    /\ UNCHANGED <<masterVars, procAlive, crashed, reader, toRemote, rmsg, object_cache,
                   empty_cache_indexes, hist, tableOps, nInts, resolved, funs, session, codec, globals, attrs, ledger>>

\* No branch of the if/elif chain matches the type and there is no else:
\* nothing is sent and the loop goes back to its receive.
LoopUnrecognised ==
    /\ procAlive /\ rpc = "handle" /\ rmsg.type \notin LoopKnownTypes
    /\ rpc' = "recv"
    /\ UNCHANGED <<masterVars, procAlive, crashed, reader, toRemote, toMaster, rmsg,
                   object_cache, empty_cache_indexes, hist, tableOps, nInts, resolved,
                   funs, session, codec, globals, attrs, ledger>>

LoopValues == {NumV(0), PyObjV(1), ListV(<<PyFuncV(1), PyObjV(1)>>)}

NextLoop ==
    \/ \E msg \in LoopRequests : LoopClientSend(msg)
    \/ LoopClientRecv
    \/ LoopRecv
    \/ RemoteDie \/ RemoteExit
    \/ LoopAck
    \/ \E v \in LoopValues : LoopValue(v)
    \/ LoopError
    \/ RemoteDelProxy
    \/ LoopUnrecognised

SpecLoop == Init /\ [][NextLoop]_vars

\* C27: the message loop sends exactly one reply for every request it
\* receives, and sends it before it reads the next request and before the
\* process ends - whatever the request type, and also when decoding or
\* handling the request raises.
C27_OneReplyPerRequest ==
    /\ LoopReplied <= LoopReceived
    /\ LoopReceived - LoopReplied <= 1
    /\ rpc # "handle" => LoopReplied = LoopReceived

\* ------------------------------------------------------------------ C22
\* Matlab.__getattr__(name): an attribute read on the session object, which
\* begins with self._get_global(name).
StartGetattr ==
    /\ session = "ready"
    /\ ~Running
    /\ nOps < MaxOps
    /\ stack' = <<[NewFrame("get_global", "wo_check", 0) EXCEPT !.ga = 1]>>
    /\ nOps' = nOps + 1
    /\ UNCHANGED <<last, completed, sockClosed, returncode, procAlive, crashed, reader,
                   receiving_reply, toRemote, toMaster, remoteVars, tableOps,
                   proxyState, proxyHandle, delSent, sent, recvd, sigints, nInts,
                   resolved, funs, session, codec, globals, attrs, ledger>>

\* A session whose attributes are read, assigned and called.
NextGetattr ==
    \/ StartGetattr
    \/ \E op \in {"set_global", "call"} : StartOp(op, 0)
    \/ \E p \in Proxies : StartFinalizer(p)
    \/ DelCheck \/ WaitCheck \/ WaitPoll \/ Send \/ Recv \/ Decode
    \/ Interrupt \/ HandlerSignal \/ HandlerRecv \/ HandlerRaise
    \/ RemoteRecv \/ RemoteAck \/ RemoteValue
    \/ (\E d \in Objs : RemoteValueObject(d))
    \/ (\E d \in Objs : RemoteValueFunction(d))
    \/ RemoteDelProxy \/ RemoteError
    \/ ProcDie

SpecGetattr == Init /\ [][NextGetattr]_vars

\* The last operation read a global that the remote reported as undefined,
\* no package of that name was found, and neither an interrupt nor a crash
\* of the child got in the way.
UndefinedRead ==
    /\ ~Running /\ last.undef /\ ~last.pkg
    /\ nInts = 0 /\ ~crashed

ReplyWaitPcs == {"wi_check", "wi_poll", "h_recv"}

ReplyWaitOnDeadChild(d) ==
    /\ Len(stack) = d
    /\ stack[d].pc \in ReplyWaitPcs
    /\ receiving_reply /\ ~sockClosed
    /\ ~procAlive
    /\ Len(toMaster) = 0

ReplyWaitEnded(d) ==
    \/ Len(stack) < d
    \/ Len(stack) >= d /\ stack[d].pc \notin ReplyWaitPcs

\* C28: every wait for a reply, the drain receive after an interrupt
\* included, checks the child's liveness at a bounded interval: whenever the
\* child has died without replying, the wait ends (with a fatal error)
\* instead of hanging.
C28_ReplyWaitsCheckLiveness ==
    \A d \in 1..2 : ReplyWaitOnDeadChild(d) ~> ReplyWaitEnded(d)

\* ------------------------------------------------------------------ C30
\* The reader is a thread of its own: it keeps running whenever it can.
ReaderStep == ReaderReadline \/ ReaderEcho \/ ReaderEof

\* The session together with its reader thread (print_to_stdout=True).
NextReader ==
    \/ Next
    \/ ReaderReadline
    \/ ReaderEcho
    \/ ReaderEof

SpecReader == Init /\ [][NextReader]_vars /\ WF_vars(ReaderStep)

\* everything but the reader's own position
SessionState ==
    <<stack, last, completed, sockClosed, returncode, procAlive, crashed,
      receiving_reply, toRemote, toMaster, rpc, rmsg, object_cache,
      empty_cache_indexes, hist, tableOps, proxyState, proxyHandle, delSent,
      sent, recvd, sigints, nOps, nInts, resolved, funs, session, codec, globals, attrs, ledger>>

\* C30: the background stdout reader only reads the child's output and
\* prints it: a step of the reader leaves the RPC socket (requests and
\* replies in flight, the REQ socket's state) and every piece of session
\* state as they were, the reader ends only at end-of-file (the child has
\* exited), and once the child has exited the reader does end.
C30_ReaderKeepsToItsStream ==
    /\ [][reader' # reader =>
            /\ UNCHANGED SessionState
            /\ reader' = "done" => ~procAlive]_vars
    /\ (~procAlive ~> reader = "done")

\* the reader holds a line it has read while a reply is waiting on the
\* socket for the main thread
C30_Witness ==
    /\ reader = "printing"
    /\ Running /\ receiving_reply /\ Len(toMaster) > 0

\* ------------------------------------------------------------------ C21
\* decode_values on the remote: references are resolved in the table, lists
\* and dicts are walked, everything else is taken as it is.
\* decode_proxy / decode_function: self.object_cache[data[1]]
CacheLookup(cache, h, isFunction) ==
    IF ~HandleInRange(cache, h) THEN ErrorV("IndexError")
    ELSE IF DecodeProxy(cache, h) = Tombstone THEN NullV
    ELSE IF isFunction THEN PyFuncV(DecodeProxy(cache, h))
    ELSE PyObjV(DecodeProxy(cache, h))

RemoteIsReference(w, tag) == IsTagged(w, tag, 2)

RECURSIVE RemoteDecodeValues(_, _)
RemoteDecodeValues(w, cache) ==
    CASE IsTagged(w, "__matrix__", 4) -> DecodeMatrix(w)
      [] RemoteIsReference(w, "__object__") -> CacheLookup(cache, w.items[2].n, FALSE)
      [] RemoteIsReference(w, "__function__") -> CacheLookup(cache, w.items[2].n, TRUE)
      [] w.k \in {"map", "pair", "list"} ->
            [w EXCEPT !.items = [i \in 1..Len(w.items) |->
                                    RemoteDecodeValues(w.items[i], cache)]]
      [] OTHER -> w

GlobalValues == {NumV(1), NumV(2), StrV("a"), ListV(<<NumV(1), StrV("a")>>)}

GlobalRequest(type, name, value) == [type |-> type, name |-> name, value |-> value]
GlobalReply(type, value) == [type |-> type, value |-> value]

\* (a __setattr__ without its list of local names)
SessionSetattr_AlwaysRemote(name, v) ==
    /\ attrs.pc = "idle" /\ procAlive
    /\ nOps < MaxOps
    /\ nOps' = nOps + 1
    /\ toRemote' = Append(toRemote,
                          GlobalRequest("set_global", name, EncodeValues("json", v)))
    /\ attrs' = [attrs EXCEPT !.pc = "wait", !.op = "set", !.name = name,
                              !.v = v, !.result = NoAttrResult]
    /\ UNCHANGED <<stack, last, completed, sockClosed, returncode, procAlive, crashed,
                   reader, receiving_reply, toMaster, remoteVars, tableOps, proxyState,
                   proxyHandle, delSent, sent, recvd, sigints, nInts, resolved, funs,
                   session, codec, globals, ledger>>

\* session.name = v: TransplantMaster.__setattr__
SessionSetattr(name, v) ==
    /\ attrs.pc = "idle" /\ procAlive
    /\ nOps < MaxOps
    /\ nOps' = nOps + 1
    /\ IF name \in LocalNames
       THEN /\ attrs' = [attrs EXCEPT !.dict[name] = v, !.op = "set", !.name = name,
                                      !.v = v, !.result = [how |-> "return", v |-> NullV]]
            /\ UNCHANGED toRemote
       ELSE /\ toRemote' = Append(toRemote,
                                  GlobalRequest("set_global", name, EncodeValues("json", v)))
            /\ attrs' = [attrs EXCEPT !.pc = "wait", !.op = "set", !.name = name,
                                      !.v = v, !.result = NoAttrResult]
    /\ UNCHANGED <<stack, last, completed, sockClosed, returncode, procAlive, crashed,
                   reader, receiving_reply, toMaster, remoteVars, tableOps, proxyState,
                   proxyHandle, delSent, sent, recvd, sigints, nInts, resolved, funs,
                   session, codec, globals, ledger>>

\* The attribute lookup of Python: the instance's __dict__ and the class come
\* first, __getattr__ is called for what they do not have.
ClassLookup(name) == name \in ClassAttrs

\* session.name: object.__getattribute__, then Matlab.__getattr__
SessionGetattr(name) ==
    /\ attrs.pc = "idle" /\ procAlive
    /\ nOps < MaxOps
    /\ nOps' = nOps + 1
    /\ IF name \in DOMAIN attrs.dict
       THEN /\ attrs' = [attrs EXCEPT !.op = "get", !.name = name,
                                      !.result = [how |-> "return", v |-> attrs.dict[name]]]
            /\ UNCHANGED toRemote
       ELSE IF ClassLookup(name)
       THEN /\ attrs' = [attrs EXCEPT !.op = "get", !.name = name,
                                      !.result = [how |-> "return", v |-> MethodV(name)]]
            /\ UNCHANGED toRemote
       ELSE /\ toRemote' = Append(toRemote, GlobalRequest("get_global", name, NullV))
            /\ attrs' = [attrs EXCEPT !.pc = "wait", !.op = "get", !.name = name,
                                      !.result = NoAttrResult]
    /\ UNCHANGED <<stack, last, completed, sockClosed, returncode, procAlive, crashed,
                   reader, receiving_reply, toMaster, remoteVars, tableOps, proxyState,
                   proxyHandle, delSent, sent, recvd, sigints, nInts, resolved, funs,
                   session, codec, globals, ledger>>

\* message_loop, 'set': globals()[msg['name']] = msg['value']; send_ack()
\* (decode_values runs before the try block: an exception in it ends the process)
RECURSIVE DecodeRaised(_)
DecodeRaised(v) ==
    \/ v.k = "error"
    \/ /\ v.k \in {"map", "pair", "list"}
       /\ \E i \in 1..Len(v.items) : DecodeRaised(v.items[i])

GlobalsSet ==
    /\ procAlive /\ Len(toRemote) > 0 /\ Head(toRemote).type = "set_global"
    /\ toRemote' = Tail(toRemote)
    /\ LET msg == Head(toRemote)
           value == RemoteDecodeValues(msg.value, object_cache)
       IN IF DecodeRaised(value)
          THEN /\ procAlive' = FALSE /\ crashed' = TRUE /\ rpc' = "dead"
               /\ UNCHANGED <<globals, toMaster>>
          ELSE /\ globals' = [globals EXCEPT ![msg.name] = value]
               /\ toMaster' = Append(toMaster, GlobalReply("ack", NullV))
               /\ UNCHANGED <<procAlive, crashed, rpc>>
    /\ UNCHANGED <<masterVars, reader, rmsg, object_cache, empty_cache_indexes, hist,
                   tableOps, nInts, resolved, funs, session, codec, attrs, ledger>>

\* message_loop, 'get': a builtin of that name, else a global of that name,
\* else NameError; send_value(value) encodes what was found.
BuiltinFirst(name) == name \in Builtins

GlobalsGet ==
    /\ procAlive /\ Len(toRemote) > 0 /\ Head(toRemote).type = "get_global"
    /\ LET msg == Head(toRemote)
           found == BuiltinFirst(msg.name) \/ globals[msg.name] # UnsetV
           value == IF BuiltinFirst(msg.name) THEN PyFuncV(1) ELSE globals[msg.name]
           r == RemoteEncodeValues(value, [wire |-> NullV, cache |-> object_cache,
                                           free |-> empty_cache_indexes, hist |-> hist])
       IN IF found
          THEN /\ object_cache' = r.cache
               /\ empty_cache_indexes' = r.free
               /\ hist' = r.hist
               /\ toMaster' = Append(toMaster, GlobalReply("value", r.wire))
          ELSE /\ toMaster' = Append(toMaster, GlobalReply("error", NullV))
               /\ UNCHANGED <<object_cache, empty_cache_indexes, hist>>
    /\ toRemote' = Tail(toRemote)
    /\ UNCHANGED <<masterVars, procAlive, crashed, reader, rpc, rmsg, tableOps, nInts,
                   resolved, funs, session, codec, globals, attrs, ledger>>

\* send_message reads the reply: an error is raised as TransplantError, a
\* value is decoded and returned, an acknowledgement ends the assignment.
SessionReply ==
    /\ attrs.pc = "wait" /\ Len(toMaster) > 0
    /\ LET m == Head(toMaster) IN
         attrs' = CASE m.type = "error" ->
                         [attrs EXCEPT !.pc = "idle",
                                       !.result = [how |-> "raise", v |-> NullV]]
                    [] m.type = "ack" ->
                         [attrs EXCEPT !.pc = "idle", !.assigned[attrs.name] = attrs.v,
                                       !.result = [how |-> "return", v |-> NullV]]
                    [] OTHER ->
                         [attrs EXCEPT !.pc = "idle",
                                       !.result = [how |-> "return",
                                                   v |-> DecodeValues(m.value)]]
    /\ toMaster' = Tail(toMaster)
    /\ UNCHANGED <<stack, last, completed, sockClosed, returncode, procAlive, crashed,
                   reader, receiving_reply, toRemote, remoteVars, tableOps, proxyState,
                   proxyHandle, delSent, sent, recvd, sigints, nOps, nInts, resolved,
                   funs, session, codec, globals, ledger>>

NextGlobals ==
    \/ \E name \in GlobalNames, v \in GlobalValues : SessionSetattr(name, v)
    \/ \E name \in GlobalNames : SessionGetattr(name)
    \/ GlobalsSet
    \/ GlobalsGet
    \/ SessionReply

SpecGlobals == Init /\ [][NextGlobals]_vars

\* C21: after session.name = v has succeeded, a later read of session.name
\* with no assignment to that name in between returns a value equal to v,
\* for every name that is not one of the session's local attribute names
\* (names the remote defines itself included).
C21_ReadReturnsAssigned ==
    (/\ attrs.pc = "idle" /\ attrs.op = "get"
     /\ attrs.name \notin LocalNames
     /\ attrs.assigned[attrs.name] # UnsetV)
    => attrs.result = [how |-> "return", v |-> attrs.assigned[attrs.name]]

\* ------------------------------------------------------------------ C31
\* C31: the table appends a slot only when the free list is empty; so as
\* long as every release named a handle the client held (each handle
\* released at most once, and only while live), the number of slots equals
\* the largest number of handles that were live at once.
C31_SlotsEqualPeakLive ==
    /\ [](ledger.ok => Len(object_cache) = ledger.peak)
    /\ [][Len(object_cache') > Len(object_cache) =>
            /\ Len(empty_cache_indexes) = 0
            /\ Len(object_cache') = Len(object_cache) + 1]_vars

\* two handles live at once, one released and its slot issued again, with
\* fewer handles live now than at the peak
C31_Witness ==
    /\ ledger.ok /\ ledger.peak = 2
    /\ Cardinality(Held(ledger.owner)) = 1
    /\ Len(hist) = 3 /\ hist[2].op = "release" /\ hist[3].op = "alloc"
    /\ Len(object_cache) = 2

\* ------------------------------------------------------------------ C32
\* m.f(...) inside a proxy's attribute access: Matlab.__getattr__ looks the
\* function f up (a get_global exchange) ...
LookupFrame(base, f) ==
    [NewFrame("get_global", "wo_check", 0) EXCEPT
       !.pa = base.pa, !.px = base.px, !.attr = base.attr, !.calls = base.calls,
       !.found = base.found, !.fn = f, !.fun = NameCode[f], !.nested = base.nested]

\* ... and the MatlabFunction it got is called (a call exchange); subsasgn,
\* subsref, properties and methods are called with the proxy as operand,
\* substruct with the name alone.
TakesProxy(f) == f \in {"subsasgn", "subsref", "properties", "methods"}

CallFrame(base, h) ==
    [NewFrame("call", "wo_check", IF TakesProxy(base.fn) THEN base.px ELSE 0) EXCEPT
       !.pa = base.pa, !.px = base.px, !.attr = base.attr, !.found = base.found,
       !.fn = base.fn, !.calls = Append(base.calls, base.fn),
       !.fun = h, !.pos = <<base.attr>>, !.nested = base.nested]

\* proxy.name = value: MatlabProxyObject.__setattr__ begins with
\* self.process.substruct('.', name)
ProxySetattr_Local(p, name) ==
    /\ session = "ready"
    /\ ~Running
    /\ nOps < MaxOps
    /\ proxyState[p] = "live"
    /\ stack' = <<LookupFrame([NewFrame("none", "none", 0) EXCEPT
                                 !.pa = "set", !.px = p, !.attr = name], "substruct")>>
    /\ proxyHandle' = IF name = "handle" THEN [proxyHandle EXCEPT ![p] = MaxObjs]
                      ELSE proxyHandle
    /\ nOps' = nOps + 1
    /\ UNCHANGED <<last, completed, sockClosed, returncode, procAlive, crashed, reader,
                   receiving_reply, toRemote, toMaster, remoteVars, tableOps,
                   proxyState, delSent, sent, recvd, sigints, nInts,
                   resolved, funs, session, codec, globals, attrs, ledger>>

ProxySetattr(p, name) ==
    /\ session = "ready"
    /\ ~Running
    /\ nOps < MaxOps
    /\ proxyState[p] = "live"
    /\ stack' = <<LookupFrame([NewFrame("none", "none", 0) EXCEPT
                                 !.pa = "set", !.px = p, !.attr = name], "substruct")>>
    /\ nOps' = nOps + 1
    /\ UNCHANGED <<last, completed, sockClosed, returncode, procAlive, crashed, reader,
                   receiving_reply, toRemote, toMaster, remoteVars, tableOps,
                   proxyState, proxyHandle, delSent, sent, recvd, sigints, nInts,
                   resolved, funs, session, codec, globals, attrs, ledger>>

\* proxy.name: MatlabProxyObject.__getattr__ (the instance's __dict__, which
\* holds 'handle' and 'process', is looked up first) begins with
\* m.properties(self, nargout=1)
ProxyGetattr(p, name) ==
    /\ session = "ready"
    /\ ~Running
    /\ nOps < MaxOps
    /\ proxyState[p] = "live"
    /\ name \notin {"handle", "process"}
    /\ stack' = <<LookupFrame([NewFrame("none", "none", 0) EXCEPT
                                 !.pa = "get", !.px = p, !.attr = name], "properties")>>
    /\ nOps' = nOps + 1
    /\ UNCHANGED <<last, completed, sockClosed, returncode, procAlive, crashed, reader,
                   receiving_reply, toRemote, toMaster, remoteVars, tableOps,
                   proxyState, proxyHandle, delSent, sent, recvd, sigints, nInts,
                   resolved, funs, session, codec, globals, attrs, ledger>>

\* The list m.properties / m.methods returned: 'name in' it needs a plain value.
IsListing(f) == f.reply = "value" /\ f.robj < 0

\* if name in m.properties(self, nargout=1): return m.subsref(self, ...);
\* otherwise go on to m.methods(self, nargout=1)
AfterProperties_Subsref(found) == "substruct"

AfterProperties(found) == IF found = "property" THEN "substruct" ELSE "methods"

\* send_message has read the reply of one exchange of the attribute access.
ProxyDecode ==
    /\ Running /\ Top.pc = "decode" /\ Top.pa # ""
    /\ \E b \in BOOLEAN :
         IF RaisesOnReply(Top.reply)
         THEN Finish(Top, "TransplantError", "raise")
         ELSE IF Top.op = "get_global"
         THEN IF Top.robj >= 0 /\ Top.rfn
              THEN /\ SetTop(CallFrame(Top, Top.robj))
                   /\ UNCHANGED <<last, completed, proxyState, session>>
              ELSE Finish(Top, "TypeError", "raise")
         ELSE CASE Top.fn = "substruct" ->
                     /\ SetTop(LookupFrame(Top, IF Top.pa = "set" THEN "subsasgn"
                                                ELSE "subsref"))
                     /\ UNCHANGED <<last, completed, proxyState, session>>
                [] Top.fn = "properties" /\ IsListing(Top) ->
                     /\ LET f == IF b THEN "property" ELSE "notproperty"
                        IN SetTop(LookupFrame([Top EXCEPT !.found = f],
                                              AfterProperties(f)))
                     /\ UNCHANGED <<last, completed, proxyState, session>>
                [] Top.fn = "methods" /\ IsListing(Top) ->
                     Finish([Top EXCEPT !.found = IF b THEN "method" ELSE "none"],
                            "ok", "return")
                [] Top.fn \in {"properties", "methods"} /\ ~IsListing(Top) ->
                     Finish(Top, "TypeError", "raise")
                [] OTHER -> Finish(Top, "ok", "return")
    /\ UNCHANGED <<sockClosed, returncode, procAlive, crashed, reader, receiving_reply,
                   toRemote, toMaster, remoteVars, tableOps, proxyHandle, delSent, sent,
                   recvd, sigints, nOps, nInts, resolved, funs, codec, globals, attrs,
                   ledger>>

ProxyAttrs == {"x", "handle", "process"}

\* A session whose proxies have their attributes read and assigned.
NextProxy ==
    \/ \E op \in {"get_global", "call"} : StartOp(op, 0)
    \/ \E p \in Proxies, name \in ProxyAttrs : ProxySetattr(p, name)
    \/ \E p \in Proxies, name \in ProxyAttrs : ProxyGetattr(p, name)
    \/ WaitCheck \/ WaitPoll \/ Send \/ Recv \/ Decode \/ ProxyDecode
    \/ RemoteRecv \/ RemoteAck \/ RemoteValue
    \/ (\E d \in Objs : RemoteValueObject(d))
    \/ (\E d \in Objs : RemoteValueFunction(d))
    \/ RemoteError

SpecProxy == Init /\ [][NextProxy]_vars

C40_UnknownAttributeReturnsNone ==
    (/\ ~Running /\ last.pa = "get"
     /\ last.found \in {"notproperty", "none"}
     /\ last.outcome = "ok")
    => /\ last.found = "none" /\ last.via = "return"
       /\ last.calls = <<"properties", "methods">>

C40_Witness ==
    /\ ~Running /\ last.pa = "get" /\ last.found = "none"
    /\ last.outcome = "ok" /\ last.attr = "x"

\* ------------------------------------------------------------------ C33
\* C33: in Matlab._call the handler's drain receive is executed only when a
\* request has been sent and its reply not yet read: an interrupt that
\* arrives before the request is transmitted, or after the reply has been
\* read, leads to no receive without an outstanding request.
C33_DrainOnlyWhenOutstanding ==
    (Running /\ Top.pc = "h_recv") => (receiving_reply /\ Top.outstanding)

\* ------------------------------------------------------------------ C34
\* C34: if the remote sends its reply and then exits, send_message delivers
\* that reply: the wait for the reply ends with the process-died error only
\* when no reply is there to be read.
C34_ReplyBeforeExitDelivered ==
    [][(/\ Running /\ Top.pc = "wi_check"
        /\ completed' = completed + 1
        /\ last'.outcome = "ProcessDied")
       => Len(toMaster) = 0]_vars

\* ------------------------------------------------------------------ C35
\* The main thread keeps running, and the remote answers each request it
\* has received (or exits).
SpecLive == Spec /\ WF_vars(MasterStep) /\ WF_vars(RemoteStep)

InSendMessage(d) == Len(stack) = d /\ stack[d].pc \in SendMessagePcs

SendMessageEnded(d) ==
    \/ Len(stack) < d
    \/ Len(stack) >= d /\ stack[d].pc \notin SendMessagePcs

\* C35: every send_message invocation eventually returns or raises, given
\* that the remote answers each request it receives or exits: no earlier
\* operation (interrupted ones included) leaves the session in a state in
\* which a new send_message waits forever while the child is alive.
C35_SendMessageEnds ==
    \A d \in 1..2 : InSendMessage(d) ~> SendMessageEnded(d)

\* ------------------------------------------------------------------ C36
\* C36: as long as every del_proxy named a live handle, in every reachable
\* state an index is in the free list exactly when its slot holds the
\* tombstone, the free list has no duplicates, and every handle issued and
\* not yet released maps to the object it was allocated for.
C36_TableConsistent ==
    ledger.ok =>
        /\ \A h \in 0..(Len(object_cache) - 1) :
              (h \in Range(empty_cache_indexes)) <=> (object_cache[h + 1] = Tombstone)
        /\ Range(empty_cache_indexes) \subseteq 0..(Len(object_cache) - 1)
        /\ NoDuplicates(empty_cache_indexes)
        /\ Len(ledger.owner) = Len(object_cache)
        /\ \A i \in Held(ledger.owner) : object_cache[i] = ledger.owner[i]

\* two handles released and one of them issued again for another object,
\* while a third handle is still held for its first object
C36_Witness ==
    /\ ledger.ok
    /\ Len(object_cache) = 3
    /\ Len(empty_cache_indexes) = 1
    /\ Cardinality(Held(ledger.owner)) = 2
    /\ Len(hist) = 3 /\ hist[3].op = "alloc" /\ hist[2].op = "release"
    /\ hist[1].op = "release"

\* ------------------------------------------------------------------ C37
\* Plain lists a caller may pass: two of them look like a reference.
PlainLists ==
    { ListV(<<StrV("__object__"), NumV(0)>>),
      ListV(<<StrV("__function__"), NumV(0)>>),
      ListV(<<StrV("a"), NumV(0)>>) }

\* A session that is assigned plain data and reads it back.
NextPlain ==
    \/ \E name \in GlobalNames, v \in PlainLists : SessionSetattr(name, v)
    \/ \E name \in GlobalNames : SessionGetattr(name)
    \/ GlobalsSet
    \/ GlobalsGet
    \/ SessionReply

SpecPlain == Init /\ [][NextPlain]_vars

\* C37: plain data supplied by the caller is never taken for a reference: a
\* plain list (a two-element list of the string "__object__" or
\* "__function__" and an integer included) reaches the peer as that list,
\* and no handle-table lookup is made for it.
C37_PlainDataStaysPlain ==
    /\ procAlive
    /\ (attrs.pc = "idle" /\ attrs.op = "set" /\ attrs.name \notin LocalNames)
         => globals[attrs.name] = attrs.v

\* ------------------------------------------------------------------ C38
\* A step that starts an assignment session.<name> = <value>.
AssignmentStarts == attrs.pc = "idle" /\ nOps' = nOps + 1 /\ attrs'.op = "set"

OriginalErrorRaised(l) ==
    /\ l.outcome = "TransplantError" /\ l.via = "raise"
    /\ l.ga = 3 /\ l.reply \in {"value", "ack"} /\ ~l.pkg

PackageReturned(l) ==
    /\ l.outcome = "ok" /\ l.via = "return"
    /\ l.ga = 3 /\ l.reply = "value" /\ l.pkg

\* The package query of a failed read starts in this step.
PackageQueryStarts ==
    /\ Running /\ Len(stack') = Len(stack)
    /\ Top.ga # 2 /\ stack'[Len(stack')].ga = 2

\* the package query follows the complete receipt of the error reply
C39_QueryAfterReply ==
    [][PackageQueryStarts =>
         /\ Top.ga = 1 /\ Top.pc = "decode"
         /\ Top.nsent = 1 /\ Top.reply = "error"]_vars

\* C39: when the read of a global fails with TransplantError, what
\* Matlab.__getattr__ hands to the caller is that original error, unless the
\* identifier is 'TRANSPLANT:novariable' and the remote reports a non-empty
\* package of that name, in which case a package wrapper is returned.
C39_OriginalErrorPropagates ==
    last.undef => (OriginalErrorRaised(last) \/ PackageReturned(last))

\* The package query of the last failed read ran to its end: the remote
\* answered it without an error, the child lived and no interrupt arrived.
PackageQueryCompleted ==
    /\ last.undef /\ last.ga = 3 /\ last.reply \in {"value", "ack"}
    /\ last.outcome \notin {"KeyboardInterrupt", "ProcessDied", "ZMQError"}

\* C39 (amended): when the read of a global fails with TransplantError and
\* the package query that follows runs to its end, Matlab.__getattr__ raises
\* the original error, unless a non-empty package of that name was reported
\* for a 'TRANSPLANT:novariable' error, in which case it returns a package
\* wrapper; and the package query starts only once the error reply has been
\* received in full.
C39_OriginalErrorAfterQuery ==
    /\ [](PackageQueryCompleted =>
            (OriginalErrorRaised(last) \/ PackageReturned(last)))
    /\ [](PackageQueryCompleted /\ ~last.pkg => OriginalErrorRaised(last))
    /\ C39_QueryAfterReply

\* Reached: a failed read ended with the original error after its package
\* query had been answered.
C39_Witness ==
    /\ ~Running /\ PackageQueryCompleted /\ ~last.pkg
    /\ last.outcome = "TransplantError" /\ sent = recvd /\ sent >= 3

====
